---------------------------- MODULE Spec2Model ----------------------------
(***************************************************************************)
(* A model of pycsob: the canonical message that is signed for the CSOB    *)
(* payment gateway (utils.py) and the normalisation of the typed request   *)
(* records into ordered maps (client.py).                                  *)
(*                                                                         *)
(* Python values are tagged records [k |-> kind, v |-> content].  A str is *)
(* a sequence of Unicode code points, bytes a sequence of 0..255, an       *)
(* ordered dict a sequence of <<key, value>> pairs (keys are strs given as *)
(* code-point sequences), a list a sequence of values.                     *)
(***************************************************************************)
EXTENDS Integers, Sequences, FiniteSets, TLC

VARIABLES
    pairs,      \* the (key, value) pairs handed to mk_payload
    payload,    \* the ordered dict mk_payload returned
    tokens,     \* mk_msg_item's result in the last sign/verify call
    msg,        \* the bytes hashed in the last sign/verify call
    probe,      \* the ordered dict handed to verify
    sig,        \* the signature handed to verify
    how,        \* what was done to probe since it was signed
    verifier,   \* the key of the verifier handed to verify (0: none yet)
    verified,   \* verify's result (meaningful once stage = "verified")
    stage,      \* position of the signing scenario
    rec,        \* the dataclass instance to_dict is called on
    out,        \* to_dict's result
    dstage,     \* position of the normalisation scenario
    response,   \* the requests.Response of the gateway
    f_pubkey,   \* the verifier handed to the handler of the response
    handler,    \* the handler the response was given to
    raised,     \* the exception the handler raised ("" if none)
    returned,   \* what the handler returned (Unset if nothing)
    rstage,     \* position of the response scenario
    client,     \* the CsobClient
    call,       \* the call made on the client: its name and argument
    http,       \* the requests the call sent
    craised,    \* the exception the call raised ("" if none)
    creturned,  \* what the call returned (Unset if nothing)
    cstage,     \* position of the request scenario
    job,        \* the call each thread makes
    frame,      \* the arguments and locals of the calls under way
    long_masked_number,  \* the masked card number handed to get_card_provider
    provider    \* the provider id get_card_provider returned

vars == <<pairs, payload, tokens, msg, probe, sig, how, verifier, verified,
          stage, rec, out, dstage,
          response, f_pubkey, handler, raised, returned, rstage,
          client, call, http, craised, creturned, cstage, job, frame,
          long_masked_number, provider>>
signVars == <<pairs, payload, tokens, msg, probe, sig, how, verifier,
              verified, stage>>
dictVars == <<rec, out, dstage>>
respVars == <<response, f_pubkey, handler, raised, returned, rstage>>
callVars == <<client, call, http, craised, creturned, cstage>>
threadVars == <<job, frame>>
cardVars == <<long_masked_number, provider>>

-----------------------------------------------------------------------------
(* Python values *)

PyNone == [k |-> "none", v |-> <<>>]
PyStr(s) == [k |-> "str", v |-> s]
PyInt(n) == [k |-> "int", v |-> n]
PyBool(b) == [k |-> "bool", v |-> b]
PyList(items) == [k |-> "list", v |-> items]
PyDict(kvs) == [k |-> "dict", v |-> kvs]
PyBytes(bs) == [k |-> "bytes", v |-> bs]

\* conf.EMPTY_VALUES: None, '', an empty list or tuple, an empty dict
EMPTY_VALUES == {PyNone, PyStr(<<>>), PyList(<<>>), PyDict(<<>>)}

\* str.strip() / str.rstrip() without arguments remove these code points
Whitespace == {9, 10, 11, 12, 13, 28, 29, 30, 31, 32, 133, 160}

\* the positions of s that hold no whitespace
Inked(s) == {i \in 1..Len(s) : s[i] \notin Whitespace}

lstrip(s) ==
    IF Inked(s) = {} THEN <<>>
    ELSE SubSeq(s, CHOOSE i \in Inked(s) : \A j \in Inked(s) : i <= j, Len(s))

rstrip(s) ==
    IF Inked(s) = {} THEN <<>>
    ELSE SubSeq(s, 1, CHOOSE i \in Inked(s) : \A j \in Inked(s) : j <= i)

\* the concatenation of a sequence of sequences
RECURSIVE concat(_)
concat(parts) ==
    IF parts = <<>> THEN <<>>
    ELSE IF Len(parts) = 1 THEN parts[1]
    ELSE LET half == Len(parts) \div 2
         IN  concat(SubSeq(parts, 1, half)) \o concat(SubSeq(parts, half + 1, Len(parts)))

strip(s) == rstrip(lstrip(s))

\* str.lower() on the ASCII letters
lower(s) == [i \in 1..Len(s) |-> IF s[i] \in 65..90 THEN s[i] + 32 ELSE s[i]]

RECURSIVE Digits(_)
Digits(n) ==
    IF n < 10 THEN <<48 + n>> ELSE Append(Digits(n \div 10), 48 + (n % 10))

\* str(value) of an int, a bool or a str
str(value) ==
    CASE value.k = "int" ->
            IF value.v < 0 THEN <<45>> \o Digits(0 - value.v) ELSE Digits(value.v)
      [] value.k = "bool" ->
            IF value.v THEN <<84, 114, 117, 101>> ELSE <<70, 97, 108, 115, 101>>
      [] OTHER -> value.v

-----------------------------------------------------------------------------
(* utils.py: the canonical message *)

\* faulty variant: the Python spelling of booleans is kept
str_or_jsbool_python(value) == strip(str(value))

str_or_jsbool(value) ==
    IF value.k = "bool" THEN lower(str(value)) ELSE strip(str(value))

\* faulty variant: the values of a dict are visited last to first
RECURSIVE mk_msg_item_reversed(_)
mk_msg_item_reversed(value) ==
    LET RECURSIVE extend(_, _)
        extend(items, i) ==
            IF i > Len(items) THEN <<>>
            ELSE mk_msg_item_reversed(items[i]) \o extend(items, i + 1)
    IN  IF value \in EMPTY_VALUES THEN <<>>
        ELSE IF value.k = "list" THEN extend(value.v, 1)
        ELSE IF value.k = "dict"
             THEN extend([i \in 1..Len(value.v) |->
                             value.v[Len(value.v) + 1 - i][2]], 1)
        ELSE <<str_or_jsbool(value)>>

RECURSIVE mk_msg_item(_)
mk_msg_item(value) ==
    LET RECURSIVE extend(_, _)
        \* data.extend(mk_msg_item(item)) for the items from position i on
        extend(items, i) ==
            IF i > Len(items) THEN <<>>
            ELSE mk_msg_item(items[i]) \o extend(items, i + 1)
    IN  IF value \in EMPTY_VALUES THEN <<>>
        ELSE IF value.k = "list" THEN extend(value.v, 1)
        ELSE IF value.k = "dict"
             THEN extend([i \in 1..Len(value.v) |-> value.v[i][2]], 1)
        ELSE <<str_or_jsbool(value)>>

\* '|'.join(items)
join(items) ==
    IF items = <<>> THEN <<>>
    ELSE concat([i \in 1..(2 * Len(items) - 1) |->
                    IF i % 2 = 1 THEN items[(i + 1) \div 2] ELSE <<124>>])

\* UTF-8 cannot encode the surrogate code points U+D800..U+DFFF: only for
\* these does the 'xmlcharrefreplace' handler produce "&#NNNN;"
\* faulty variant: every non-ASCII code point becomes a character reference
encode_char_ascii(c) ==
    IF c < 128 THEN <<c>> ELSE <<38, 35>> \o Digits(c) \o <<59>>

encode_char(c) ==
    IF c < 128 THEN <<c>>
    ELSE IF c < 2048 THEN <<192 + (c \div 64), 128 + (c % 64)>>
    ELSE IF c \in 55296..57343 THEN <<38, 35>> \o Digits(c) \o <<59>>
    ELSE IF c < 65536
         THEN <<224 + (c \div 4096), 128 + ((c \div 64) % 64), 128 + (c % 64)>>
    ELSE <<240 + (c \div 262144), 128 + ((c \div 4096) % 64),
           128 + ((c \div 64) % 64), 128 + (c % 64)>>

\* s.encode('utf-8', 'xmlcharrefreplace')
encode(s) == concat([i \in 1..Len(s) |-> encode_char(s[i])])

mk_msg_for_sign(p) == encode(join(mk_msg_item(p)))

-----------------------------------------------------------------------------
(* base64 (RFC 4648, standard alphabet) *)

b64char(i) ==
    IF i < 26 THEN 65 + i
    ELSE IF i < 52 THEN 97 + (i - 26)
    ELSE IF i < 62 THEN 48 + (i - 52)
    ELSE IF i = 62 THEN 43 ELSE 47

b64index(c) ==
    IF c \in 65..90 THEN c - 65
    ELSE IF c \in 97..122 THEN c - 97 + 26
    ELSE IF c \in 48..57 THEN c - 48 + 52
    ELSE IF c = 43 THEN 62 ELSE 63

\* three bytes (the last group: one or two) as four characters
b64group(bs) ==
    IF Len(bs) = 1
    THEN <<b64char(bs[1] \div 4), b64char((bs[1] % 4) * 16), 61, 61>>
    ELSE IF Len(bs) = 2
         THEN <<b64char(bs[1] \div 4),
                b64char((bs[1] % 4) * 16 + (bs[2] \div 16)),
                b64char((bs[2] % 16) * 4), 61>>
    ELSE <<b64char(bs[1] \div 4),
           b64char((bs[1] % 4) * 16 + (bs[2] \div 16)),
           b64char((bs[2] % 16) * 4 + (bs[3] \div 64)),
           b64char(bs[3] % 64)>>

b64encode(bs) ==
    concat([g \in 1..((Len(bs) + 2) \div 3) |->
               b64group(SubSeq(bs, 3 * g - 2,
                               IF 3 * g < Len(bs) THEN 3 * g ELSE Len(bs)))])

\* four characters as three bytes (fewer before '=' padding)
b64ungroup(cs) ==
    LET a == b64index(cs[1])
        b == b64index(cs[2])
        c == b64index(cs[3])
        d == b64index(cs[4])
    IN  IF cs[3] = 61 THEN <<a * 4 + (b \div 16)>>
        ELSE IF cs[4] = 61
             THEN <<a * 4 + (b \div 16), (b % 16) * 16 + (c \div 4)>>
        ELSE <<a * 4 + (b \div 16), (b % 16) * 16 + (c \div 4), (c % 4) * 64 + d>>

\* the characters of the alphabet in cs: b64decode (validate=False) drops
\* every other character, and the padding is looked at apart
b64data(cs) ==
    SelectSeq(cs, LAMBDA c : c \in (65..90) \cup (97..122) \cup (48..57) \cup {43, 47})

\* what b64decode(cs) raises, for cs whose '=' all stand at its end: a
\* non-ASCII character is refused, and so is a last group that is one
\* character long or that lacks its padding
b64decode_raises(cs) ==
    LET n == Len(b64data(cs)) % 4
        pads == Len(SelectSeq(cs, LAMBDA c : c = 61))
    IN  IF \E i \in 1..Len(cs) : cs[i] > 127 THEN "ValueError"
        ELSE IF n = 1 \/ (n = 2 /\ pads < 2) \/ (n = 3 /\ pads < 1) THEN "binascii.Error"
        ELSE ""

\* b64decode(cs) when it does not raise: the groups of four of the
\* characters of the alphabet, the last one padded
b64decode(cs) ==
    LET data == b64data(cs)
        padded == data \o [i \in 1..((4 - (Len(data) % 4)) % 4) |-> 61]
    IN  concat([g \in 1..(Len(padded) \div 4) |->
                   b64ungroup(SubSeq(padded, 4 * g - 3, 4 * g))])

-----------------------------------------------------------------------------
(* RSA PKCS#1 v1.5 over SHA-256 (pycryptodome), idealised: the digest is    *)
(* collision free, the signature is a deterministic function of the key    *)
(* and the digest, and it verifies under the public half of that key only. *)

SHA256_new(m) == [digest |-> m]

\* PKCS1_v1_5.new(key), as pkcs1(keyfile) returns it
PKCS1_v1_5_new(key) == [key |-> key]

\* signer.sign(h): a byte string
PKCS1_sign(signer, h) == <<signer.key>> \o h.digest

\* verifier.verify(h, signature)
PKCS1_verify(vrf, h, signature) == signature = <<vrf.key>> \o h.digest

\* faulty variant: the tokens are hashed without the separator
sign_unjoined(p, signer) ==
    b64encode(PKCS1_sign(signer, SHA256_new(encode(concat(mk_msg_item(p))))))

sign(p, signer) ==
    LET m == mk_msg_for_sign(p)
        h == SHA256_new(m)
    IN  b64encode(PKCS1_sign(signer, h))

\* faulty variant: the outcome of the signature check is dropped
verify_unchecked(p, signature, vrf) ==
    PKCS1_verify(vrf, SHA256_new(mk_msg_for_sign(p)), b64decode(signature))
        \/ Len(b64decode(signature)) > 0

verify(p, signature, vrf) ==
    LET m == mk_msg_for_sign(p)
        h == SHA256_new(m)
    IN  PKCS1_verify(vrf, h, b64decode(signature))

-----------------------------------------------------------------------------
(* collections.OrderedDict *)

od_keys(d) == [i \in 1..Len(d.v) |-> d.v[i][1]]
od_values(d) == [i \in 1..Len(d.v) |-> d.v[i][2]]
od_has(d, key) == \E i \in 1..Len(d.v) : d.v[i][1] = key
od_get(d, key) == d.v[CHOOSE i \in 1..Len(d.v) : d.v[i][1] = key][2]

\* d[key] = value: an existing key keeps its position
od_set(d, key, value) ==
    IF od_has(d, key)
    THEN PyDict([i \in 1..Len(d.v) |->
                    IF d.v[i][1] = key THEN <<key, value>> ELSE d.v[i]])
    ELSE PyDict(Append(d.v, <<key, value>>))

\* d.pop(key) of a present key: what is left
od_without(d, key) ==
    PyDict(SelectSeq(d.v, LAMBDA kv : kv[1] # key))

\* OrderedDict(list of pairs)
RECURSIVE OrderedDict(_)
OrderedDict(kvs) ==
    IF kvs = <<>> THEN PyDict(<<>>)
    ELSE LET last == kvs[Len(kvs)]
         IN  od_set(OrderedDict(SubSeq(kvs, 1, Len(kvs) - 1)), last[1], last[2])

K_signature == <<115, 105, 103, 110, 97, 116, 117, 114, 101>>  \* 'signature'

\* faulty variant: the empty values are kept
mk_payload_unfiltered(signer, kvs) ==
    LET p == OrderedDict(kvs)
    IN  od_set(p, K_signature, PyStr(sign(p, signer)))

mk_payload(signer, kvs) ==
    LET p == OrderedDict(SelectSeq(kvs, LAMBDA kv : kv[2] \notin EMPTY_VALUES))
    IN  od_set(p, K_signature, PyStr(sign(p, signer)))

-----------------------------------------------------------------------------
(* The signing scenario: mk_payload signs a sequence of pairs, the          *)
(* signature is popped (as the receiver and the tests do), and verify is    *)
(* called on the map, untouched or with one field changed or two swapped.  *)

MaxPairs == 2

K_a == <<97>>
K_b == <<98>>
K_c == <<99>>
K_d == <<100>>
K_e == <<101>>

S_X == <<88>>                       \* 'X'
S_Y == <<89>>                       \* 'Y'
S_Z == <<90>>                       \* 'Z'
S_padX == <<32, 88, 32>>            \* ' X '
S_blank == <<32>>                   \* ' '
S_zero == <<48>>                    \* '0'
S_acute == <<89, 225>>              \* 'Y' followed by U+00E1
S_surrogate == <<55296>>            \* the lone surrogate U+D800
S_true == <<116, 114, 117, 101>>    \* 'true'
S_piped == <<88, 124, 89, 124, 90>> \* 'X|Y|Z'

\* {a: 'X', b: {c: 'Y'}, d: [{e: 'Z'}]}
Example ==
    PyDict(<< <<K_a, PyStr(S_X)>>,
              <<K_b, PyDict(<< <<K_c, PyStr(S_Y)>> >>)>>,
              <<K_d, PyList(<< PyDict(<< <<K_e, PyStr(S_Z)>> >>) >>)>> >>)

\* the values a pair handed to mk_payload may carry
PairValues ==
    {PyNone, PyDict(<<>>), PyStr(S_X), PyStr(S_padX), PyStr(S_acute),
     PyBool(TRUE), PyInt(0), Example,
     PyDict(<< <<K_c, PyStr(<<>>)>>, <<K_d, PyStr(S_surrogate)>> >>)}

\* the values a field may be changed to before verify is called
Values ==
    PairValues \cup
    {PyStr(<<>>), PyList(<<>>), PyStr(S_true), PyStr(S_zero), PyStr(S_blank),
     PyStr(S_piped), PyBool(FALSE), PyList(<< PyDict(<< <<K_e, PyStr(S_Z)>> >>), PyDict(<<>>) >>)}

\* the keys of a request are distinct and none of them is 'signature'
KeyPool == {K_a, K_b, K_c}

PairSeqs ==
    UNION {{ps \in [1..n -> KeyPool \X PairValues] :
               \A i, j \in 1..n : i # j => ps[i][1] # ps[j][1]} : n \in 0..MaxPairs}

MerchantSigner == PKCS1_v1_5_new(1)
Verifiers == {PKCS1_v1_5_new(1), PKCS1_v1_5_new(2)}

InitSign ==
    /\ pairs \in PairSeqs
    /\ payload = PyNone
    /\ tokens = <<>>
    /\ msg = <<>>
    /\ probe = PyNone
    /\ sig = <<>>
    /\ how = "none"
    /\ verifier = 0
    /\ verified = FALSE
    /\ stage = "pairs"

IdleSign ==
    /\ pairs = <<>>
    /\ payload = PyNone
    /\ tokens = <<>>
    /\ msg = <<>>
    /\ probe = PyNone
    /\ sig = <<>>
    /\ how = "none"
    /\ verifier = 0
    /\ verified = FALSE
    /\ stage = "idle"

\* payload = mk_payload(signer, pairs)
MkPayload ==
    /\ stage = "pairs"
    /\ payload' = mk_payload(MerchantSigner, pairs)
    /\ tokens' = mk_msg_item(od_without(payload', K_signature))
    /\ msg' = mk_msg_for_sign(od_without(payload', K_signature))
    /\ stage' = "signed"
    /\ UNCHANGED <<pairs, probe, sig, how, verifier, verified, dictVars, respVars, callVars, threadVars, cardVars>>

\* the map with the value of its i-th field replaced
WithValue(d, i, value) ==
    PyDict([j \in 1..Len(d.v) |-> IF j = i THEN <<d.v[j][1], value>> ELSE d.v[j]])

\* the map with its i-th and j-th fields exchanged
Swapped(d, i, j) ==
    PyDict([n \in 1..Len(d.v) |->
               IF n = i THEN d.v[j] ELSE IF n = j THEN d.v[i] ELSE d.v[n]])

\* sig = payload.pop('signature'); verify(payload, sig, verifier)
VerifyCall(p, h, vrf) ==
    /\ stage = "signed"
    /\ probe' = p
    /\ sig' = od_get(payload, K_signature).v
    /\ how' = h
    /\ verifier' = vrf.key
    /\ tokens' = mk_msg_item(p)
    /\ msg' = mk_msg_for_sign(p)
    /\ verified' = verify(p, sig', vrf)
    /\ stage' = "verified"
    /\ UNCHANGED <<pairs, payload, dictVars, respVars, callVars, threadVars, cardVars>>

VerifyIntact ==
    \E vrf \in Verifiers :
        VerifyCall(od_without(payload, K_signature), "intact", vrf)

VerifyChanged ==
    LET p == od_without(payload, K_signature)
    IN  \E i \in 1..Len(p.v), value \in Values :
            /\ value # p.v[i][2]
            /\ VerifyCall(WithValue(p, i, value), "changed", PKCS1_v1_5_new(1))

VerifySwapped ==
    LET p == od_without(payload, K_signature)
    IN  \E i, j \in 1..Len(p.v) :
            /\ i < j
            /\ VerifyCall(Swapped(p, i, j), "swapped", PKCS1_v1_5_new(1))

-----------------------------------------------------------------------------
(* client.py: the request records.  A field name is the str of its code    *)
(* points; F_x is the name x.                                               *)

F_name == <<110, 97, 109, 101>>
F_quantity == <<113, 117, 97, 110, 116, 105, 116, 121>>
F_amount == <<97, 109, 111, 117, 110, 116>>
F_description == <<100, 101, 115, 99, 114, 105, 112, 116, 105, 111, 110>>
F_created_at == <<99, 114, 101, 97, 116, 101, 100, 95, 97, 116>>
F_changed_at == <<99, 104, 97, 110, 103, 101, 100, 95, 97, 116>>
F_changed_pwd_at == <<99, 104, 97, 110, 103, 101, 100, 95, 112, 119, 100, 95, 97, 116>>
F_order_history == <<111, 114, 100, 101, 114, 95, 104, 105, 115, 116, 111, 114, 121>>
F_payments_day == <<112, 97, 121, 109, 101, 110, 116, 115, 95, 100, 97, 121>>
F_payments_year == <<112, 97, 121, 109, 101, 110, 116, 115, 95, 121, 101, 97, 114>>
F_oneclick_adds == <<111, 110, 101, 99, 108, 105, 99, 107, 95, 97, 100, 100, 115>>
F_suspicious == <<115, 117, 115, 112, 105, 99, 105, 111, 117, 115>>
F_auth == <<97, 117, 116, 104>>
F_auth_at == <<97, 117, 116, 104, 95, 97, 116>>
F_auth_data == <<97, 117, 116, 104, 95, 100, 97, 116, 97>>
F_email == <<101, 109, 97, 105, 108>>
F_home_phone == <<104, 111, 109, 101, 95, 112, 104, 111, 110, 101>>
F_work_phone == <<119, 111, 114, 107, 95, 112, 104, 111, 110, 101>>
F_mobile_phone == <<109, 111, 98, 105, 108, 101, 95, 112, 104, 111, 110, 101>>
F_account == <<97, 99, 99, 111, 117, 110, 116>>
F_login == <<108, 111, 103, 105, 110>>
F_address_1 == <<97, 100, 100, 114, 101, 115, 115, 95, 49>>
F_city == <<99, 105, 116, 121>>
F_zip == <<122, 105, 112>>
F_country == <<99, 111, 117, 110, 116, 114, 121>>
F_address_2 == <<97, 100, 100, 114, 101, 115, 115, 95, 50>>
F_address_3 == <<97, 100, 100, 114, 101, 115, 115, 95, 51>>
F_state == <<115, 116, 97, 116, 101>>
F_total_amount == <<116, 111, 116, 97, 108, 95, 97, 109, 111, 117, 110, 116>>
F_currency == <<99, 117, 114, 114, 101, 110, 99, 121>>
F_type == <<116, 121, 112, 101>>
F_availability == <<97, 118, 97, 105, 108, 97, 98, 105, 108, 105, 116, 121>>
F_delivery == <<100, 101, 108, 105, 118, 101, 114, 121>>
F_delivery_mode == <<100, 101, 108, 105, 118, 101, 114, 121, 95, 109, 111, 100, 101>>
F_delivery_email == <<100, 101, 108, 105, 118, 101, 114, 121, 95, 101, 109, 97, 105, 108>>
F_name_match == <<110, 97, 109, 101, 95, 109, 97, 116, 99, 104>>
F_address_match == <<97, 100, 100, 114, 101, 115, 115, 95, 109, 97, 116, 99, 104>>
F_billing == <<98, 105, 108, 108, 105, 110, 103>>
F_shipping == <<115, 104, 105, 112, 112, 105, 110, 103>>
F_shipping_added_at == <<115, 104, 105, 112, 112, 105, 110, 103, 95, 97, 100, 100, 101, 100, 95, 97, 116>>
F_reorder == <<114, 101, 111, 114, 100, 101, 114>>
F_giftcards == <<103, 105, 102, 116, 99, 97, 114, 100, 115>>

\* dataclasses.fields(instance): the field names in declaration order
fields(cls) ==
    CASE cls = "CartItem" ->
        <<F_name, F_quantity, F_amount, F_description>>
      [] cls = "CustomerAccount" ->
        <<F_created_at, F_changed_at, F_changed_pwd_at, F_order_history,
           F_payments_day, F_payments_year, F_oneclick_adds, F_suspicious>>
      [] cls = "CustomerLogin" ->
        <<F_auth, F_auth_at, F_auth_data>>
      [] cls = "Customer" ->
        <<F_name, F_email, F_home_phone, F_work_phone, F_mobile_phone,
           F_account, F_login>>
      [] cls = "OrderAddress" ->
        <<F_address_1, F_city, F_zip, F_country, F_address_2, F_address_3,
           F_state>>
      [] cls = "OrderGiftcards" ->
        <<F_total_amount, F_currency, F_quantity>>
      [] cls = "Order" ->
        <<F_type, F_availability, F_delivery, F_delivery_mode,
           F_delivery_email, F_name_match, F_address_match, F_billing,
           F_shipping, F_shipping_added_at, F_reorder, F_giftcards>>

\* faulty variant: _ordered_fields is never found
never_ordered(cls) == FALSE

\* hasattr(instance, "_ordered_fields")
has_ordered_fields(cls) == cls = "OrderAddress"

\* OrderAddress._ordered_fields
ordered_fields(cls) ==
    <<F_address_1, F_address_2, F_address_3, F_city, F_zip, F_country,
           F_state>>

\* the class attribute _max_length, as a set of <<name, length>>
max_length(cls) ==
    CASE cls = "CartItem" ->
        {<<F_name, 20>>, <<F_description, 40>>}
      [] cls = "Customer" ->
        {<<F_name, 45>>}
      [] cls = "OrderAddress" ->
        {<<F_address_1, 50>>, <<F_address_2, 50>>, <<F_address_3, 50>>,
         <<F_city, 50>>, <<F_zip, 16>>}
      [] cls = "Order" ->
        {<<F_delivery_email, 100>>}
      [] OTHER -> {}

PyRec(cls, values) == [k |-> "rec", v |-> [cls |-> cls, f |-> values]]
PyEnum(value) == [k |-> "enum", v |-> value]
PyDatetime(d) == [k |-> "datetime", v |-> d]

\* getattr(instance, name)
getattr(self, name) ==
    LET fs == fields(self.v.cls)
    IN  self.v.f[CHOOSE i \in 1..Len(fs) : fs[i] = name]

\* reorder_fields(instance): the fields named by _ordered_fields, in that order
reorder_fields(cls) ==
    [i \in 1..Len(ordered_fields(cls)) |->
        fields(cls)[CHOOSE j \in 1..Len(fields(cls)) :
                        fields(cls)[j] = ordered_fields(cls)[i]]]

IsLetter(c) == c \in 65..90 \/ c \in 97..122

\* str.title(): a letter is upper-cased unless the character before it is a
\* letter, and lower-cased if it is
title(s) ==
    [i \in 1..Len(s) |->
        IF ~IsLetter(s[i]) THEN s[i]
        ELSE IF i > 1 /\ IsLetter(s[i - 1])
             THEN (IF s[i] \in 65..90 THEN s[i] + 32 ELSE s[i])
        ELSE (IF s[i] \in 97..122 THEN s[i] - 32 ELSE s[i])]

\* name.split("_")
RECURSIVE split(_)
split(s) ==
    IF \A i \in 1..Len(s) : s[i] # 95 THEN <<s>>
    ELSE LET i == CHOOSE n \in 1..Len(s) :
                      s[n] = 95 /\ \A m \in 1..(n - 1) : s[m] # 95
         IN  <<SubSeq(s, 1, i - 1)>> \o split(SubSeq(s, i + 1, Len(s)))

_to_camel_case(name) ==
    LET parts == split(name)
    IN  parts[1] \o concat([i \in 1..(Len(parts) - 1) |-> title(parts[i + 1])])

pad(n, width) ==
    LET ds == Digits(n)
    IN  [i \in 1..(width - Len(ds)) |-> 48] \o ds

\* datetime.isoformat() of a value without microseconds
isoformat(d) ==
    pad(d.y, 4) \o <<45>> \o pad(d.mo, 2) \o <<45>> \o pad(d.d, 2) \o <<84>>
    \o pad(d.h, 2) \o <<58>> \o pad(d.mi, 2) \o <<58>> \o pad(d.s, 2)
    \o (IF ~d.aware THEN <<>>
        ELSE (IF d.off < 0 THEN <<45>> ELSE <<43>>)
             \o pad((IF d.off < 0 THEN 0 - d.off ELSE d.off) \div 60, 2) \o <<58>>
             \o pad((IF d.off < 0 THEN 0 - d.off ELSE d.off) % 60, 2))

\* value[:n]
prefix(s, n) == SubSeq(s, 1, IF Len(s) < n THEN Len(s) ELSE n)

\* faulty variant: the cut value keeps its trailing whitespace
_format_field_cut(cls, name, value) ==
    IF value.k = "enum" THEN PyStr(str(value.v))
    ELSE IF value.k = "datetime" THEN PyStr(isoformat(value.v))
    ELSE IF value.k = "str" /\ \E e \in max_length(cls) : e[1] = name
         THEN PyStr(prefix(value.v, (CHOOSE e \in max_length(cls) : e[1] = name)[2]))
    ELSE value

\* no record class defines a _format_<name> method, so the first branch of
\* the source is never taken
_format_field(cls, name, value) ==
    IF value.k = "enum" THEN PyStr(str(value.v))
    ELSE IF value.k = "datetime" THEN PyStr(isoformat(value.v))
    ELSE IF value.k = "str" /\ \E e \in max_length(cls) : e[1] = name
         THEN LET n == (CHOOSE e \in max_length(cls) : e[1] = name)[2]
              IN  PyStr(rstrip(prefix(value.v, n)))
    ELSE value

\* faulty variant: only None counts as empty
RECURSIVE to_dict_none_only(_)
to_dict_none_only(self) ==
    LET cls == self.v.cls
        get_fields == IF has_ordered_fields(cls) THEN reorder_fields(cls)
                      ELSE fields(cls)
        RECURSIVE data(_)
        data(i) ==
            IF i > Len(get_fields) THEN <<>>
            ELSE LET name == get_fields[i]
                     value == getattr(self, name)
                 IN  IF value = PyNone THEN data(i + 1)
                     ELSE LET converted == IF value.k = "rec"
                                           THEN to_dict_none_only(value)
                                           ELSE value
                          IN  << <<_to_camel_case(name),
                                   _format_field(cls, name, converted)>> >>
                              \o data(i + 1)
    IN  OrderedDict(data(1))

RECURSIVE to_dict(_)
to_dict(self) ==
    LET cls == self.v.cls
        get_fields == IF has_ordered_fields(cls) THEN reorder_fields(cls)
                      ELSE fields(cls)
        RECURSIVE data(_)
        data(i) ==
            IF i > Len(get_fields) THEN <<>>
            ELSE LET name == get_fields[i]
                     value == getattr(self, name)
                 IN  IF value \in EMPTY_VALUES THEN data(i + 1)
                     ELSE LET converted == IF value.k = "rec" THEN to_dict(value)
                                           ELSE value
                          IN  << <<_to_camel_case(name),
                                   _format_field(cls, name, converted)>> >>
                              \o data(i + 1)
    IN  OrderedDict(data(1))


-----------------------------------------------------------------------------
(* The normalisation scenario: a record is built by the caller, to_dict     *)
(* normalises it, and the result is flattened as part of a request.         *)

MaxSpaces == 2
MaxTail == 2

CartItem(name, quantity, amount, description) ==
    PyRec("CartItem", <<name, quantity, amount, description>>)

CustomerAccount(created_at, order_history, suspicious) ==
    PyRec("CustomerAccount",
          <<created_at, PyNone, PyNone, order_history, PyNone, PyNone, PyNone,
            suspicious>>)

CustomerLogin(auth, auth_at, auth_data) ==
    PyRec("CustomerLogin", <<auth, auth_at, auth_data>>)

Customer(name, email, account, login) ==
    PyRec("Customer", <<name, email, PyNone, PyNone, PyNone, account, login>>)

OrderAddress(address_1, city, zip, country, address_2, state) ==
    PyRec("OrderAddress", <<address_1, city, zip, country, address_2, PyNone, state>>)

OrderGiftcards(total_amount, currency, quantity) ==
    PyRec("OrderGiftcards", <<total_amount, currency, quantity>>)

Order(type, availability, mode, email, name_match, billing, giftcards) ==
    PyRec("Order",
          <<type, availability, PyNone, mode, email, name_match,
            PyNone, billing, PyNone, PyNone, PyNone, giftcards>>)

repeat(c, n) == [i \in 1..n |-> c]

\* i times 'x', then up to MaxSpaces blanks, then up to MaxTail times 'x'
StrSamples(starts) ==
    {repeat(120, i) \o repeat(32, j) \o repeat(120, n) :
        i \in starts, j \in 0..MaxSpaces, n \in 0..MaxTail}

S_CZ == <<67, 90>>                                  \* 'CZ'
S_now == <<110, 111, 119>>                          \* 'now'
S_account == <<97, 99, 99, 111, 117, 110, 116>>     \* 'account'
S_purchase == <<112, 117, 114, 99, 104, 97, 115, 101>>  \* 'purchase'
S_USD == <<85, 83, 68>>                             \* 'USD'
S_mail == <<32, 101, 32>>                           \* ' e '

\* datetime(2024, 6, 25, 13, 30, 15, tzinfo=timezone(timedelta(hours=2)))
Dt_cest ==
    PyDatetime([y |-> 2024, mo |-> 6, d |-> 25, h |-> 13, mi |-> 30, s |-> 15,
                aware |-> TRUE, off |-> 120])
\* datetime(2019, 5, 2, 6, 4, 6)
Dt_naive ==
    PyDatetime([y |-> 2019, mo |-> 5, d |-> 2, h |-> 6, mi |-> 4, s |-> 6,
                aware |-> FALSE, off |-> 0])

CartItems ==
    {CartItem(PyStr(s), PyInt(5), PyInt(0), PyNone) : s \in StrSamples({0, 18, 19, 20})}
    \cup {CartItem(PyStr(S_X), PyInt(1), PyInt(1000), PyStr(s)) :
             s \in StrSamples({0, 39, 40})}

Accounts ==
    {PyNone, CustomerAccount(PyNone, PyNone, PyNone),
     CustomerAccount(Dt_cest, PyInt(0), PyBool(FALSE))}

Logins ==
    {PyNone, CustomerLogin(PyNone, PyNone, PyNone),
     CustomerLogin(PyEnum(PyStr(S_account)), Dt_naive, PyStr(S_mail))}

Customers ==
    {Customer(PyStr(s), email, account, login) :
        s \in StrSamples({44}), email \in {PyNone, PyStr(<<>>), PyStr(S_mail)},
        account \in Accounts, login \in Logins}

Addresses ==
    {OrderAddress(PyStr(a1), PyStr(S_X), PyStr(z), PyStr(S_CZ), a2, st) :
        a1 \in StrSamples({49}), z \in {S_Z, repeat(120, 17)},
        a2 \in {PyNone, PyStr(repeat(120, 51))}, st \in {PyNone, PyStr(S_Y)}}

Giftcards ==
    {PyNone, OrderGiftcards(PyNone, PyNone, PyNone),
     OrderGiftcards(PyInt(0), PyEnum(PyStr(S_USD)), PyNone)}

Orders ==
    {Order(type, availability, mode, email, match, billing, gift) :
        type \in {PyNone, PyEnum(PyStr(S_purchase))},
        availability \in {PyNone, PyEnum(PyStr(S_now)), PyStr(S_now), Dt_cest},
        mode \in {PyNone, PyEnum(PyInt(0))},
        email \in {PyNone, PyStr(repeat(120, 99) \o <<32, 120>>)},
        match \in {PyNone, PyBool(FALSE)},
        billing \in {PyNone,
                     OrderAddress(PyStr(repeat(120, 49) \o <<32, 120>>), PyStr(S_X),
                                  PyStr(S_Z), PyStr(S_CZ), PyNone, PyNone)},
        gift \in Giftcards}

Instances ==
    CartItems \cup Customers \cup Addresses \cup Orders
        \cup ((Accounts \cup Logins \cup Giftcards) \ {PyNone})

InitDict ==
    /\ rec \in Instances
    /\ out = PyNone
    /\ dstage = "rec"

IdleDict ==
    /\ rec = PyNone
    /\ out = PyNone
    /\ dstage = "idle"

\* out = rec.to_dict()
ToDict ==
    /\ dstage = "rec"
    /\ out' = to_dict(rec)
    /\ dstage' = "dict"
    /\ UNCHANGED <<rec, signVars, respVars, callVars, threadVars, cardVars>>

\* mk_msg_item(out), as sign does for the request that carries out
FlattenDict ==
    /\ dstage = "dict"
    /\ tokens' = mk_msg_item(out)
    /\ msg' = mk_msg_for_sign(out)
    /\ dstage' = "flat"
    /\ UNCHANGED <<rec, out, pairs, payload, probe, sig, how, verifier,
                   verified, stage, respVars, callVars, threadVars, cardVars>>

-----------------------------------------------------------------------------
(* utils.py / client.py: the responses of the gateway.  A call that may    *)
(* raise is a record whose field exc names the exception ("" when the call  *)
(* returns).                                                               *)

R_payId == <<112, 97, 121, 73, 100>>  \* 'payId'
R_dttm == <<100, 116, 116, 109>>  \* 'dttm'
R_resultCode == <<114, 101, 115, 117, 108, 116, 67, 111, 100, 101>>  \* 'resultCode'
R_resultMessage == <<114, 101, 115, 117, 108, 116, 77, 101, 115, 115, 97, 103, 101>>  \* 'resultMessage'
R_paymentStatus == <<112, 97, 121, 109, 101, 110, 116, 83, 116, 97, 116, 117, 115>>  \* 'paymentStatus'
R_authCode == <<97, 117, 116, 104, 67, 111, 100, 101>>  \* 'authCode'
R_merchantData == <<109, 101, 114, 99, 104, 97, 110, 116, 68, 97, 116, 97>>  \* 'merchantData'
R_dttime == <<100, 116, 116, 105, 109, 101>>  \* 'dttime'
R_extensions == <<101, 120, 116, 101, 110, 115, 105, 111, 110, 115>>  \* 'extensions'
R_extension == <<101, 120, 116, 101, 110, 115, 105, 111, 110>>  \* 'extension'
R_maskedCln == <<109, 97, 115, 107, 101, 100, 67, 108, 110>>  \* 'maskedCln'
R_expiration == <<101, 120, 112, 105, 114, 97, 116, 105, 111, 110>>  \* 'expiration'
R_longMaskedCln == <<108, 111, 110, 103, 77, 97, 115, 107, 101, 100, 67, 108, 110>>  \* 'longMaskedCln'
R_bonus == <<98, 111, 110, 117, 115>>  \* 'bonus'
S_maskClnRP == <<109, 97, 115, 107, 67, 108, 110, 82, 80>>  \* 'maskClnRP'
S_trxDates == <<116, 114, 120, 68, 97, 116, 101, 115>>  \* 'trxDates'

\* the canonical order of the response keys
RESPONSE_KEYS ==
    <<R_payId, R_dttm, R_resultCode, R_resultMessage, R_paymentStatus,
      R_authCode, R_merchantData>>

\* an attribute that was never assigned
Unset == [k |-> "unset", v |-> <<>>]

\* a PKCS1_v1_5 signature scheme object held in a variable
PyKey(scheme) == [k |-> "PKCS115_SigScheme", v |-> scheme]

IsDigits(s) == \A i \in 1..Len(s) : s[i] \in 48..57

RECURSIVE atoi(_)
atoi(ds) ==
    IF ds = <<>> THEN 0
    ELSE 10 * atoi(SubSeq(ds, 1, Len(ds) - 1)) + (ds[Len(ds)] - 48)

\* int(value): of a str, blanks around and a sign before the digits are read
int(value) ==
    CASE value.k = "int" -> [exc |-> "", value |-> value]
      [] value.k = "bool" -> [exc |-> "", value |-> PyInt(IF value.v THEN 1 ELSE 0)]
      [] value.k = "str" ->
            LET t == strip(value.v)
                signed == Len(t) > 0 /\ t[1] \in {43, 45}
                ds == IF signed THEN SubSeq(t, 2, Len(t)) ELSE t
            IN  IF Len(ds) > 0 /\ IsDigits(ds)
                THEN [exc |-> "",
                      value |-> PyInt(IF signed /\ t[1] = 45 THEN 0 - atoi(ds)
                                      ELSE atoi(ds))]
                ELSE [exc |-> "ValueError", value |-> PyNone]
      [] OTHER -> [exc |-> "TypeError", value |-> PyNone]

days_in_month(y, mo) ==
    IF mo = 2
    THEN (IF y % 4 = 0 /\ (y % 100 # 0 \/ y % 400 = 0) THEN 29 ELSE 28)
    ELSE IF mo \in {4, 6, 9, 11} THEN 30 ELSE 31

\* datetime.strptime(value, "%Y%m%d%H%M%S") of a str of fourteen characters
dttm_decode(value) ==
    IF value.k # "str" THEN [exc |-> "TypeError", value |-> PyNone]
    ELSE IF ~(Len(value.v) = 14 /\ IsDigits(value.v))
    THEN [exc |-> "ValueError", value |-> PyNone]
    ELSE LET s == value.v
             y == atoi(SubSeq(s, 1, 4))
             mo == atoi(SubSeq(s, 5, 6))
             d == atoi(SubSeq(s, 7, 8))
             h == atoi(SubSeq(s, 9, 10))
             mi == atoi(SubSeq(s, 11, 12))
             sec == atoi(SubSeq(s, 13, 14))
         IN  IF /\ y >= 1
                /\ mo \in 1..12
                /\ d \in 1..days_in_month(y, mo)
                /\ h <= 23 /\ mi <= 59 /\ sec <= 59
             THEN [exc |-> "",
                   value |-> PyDatetime([y |-> y, mo |-> mo, d |-> d, h |-> h,
                                         mi |-> mi, s |-> sec,
                                         aware |-> FALSE, off |-> 0])]
             ELSE [exc |-> "ValueError", value |-> PyNone]

\* what verify(payload, signature, verifier) raises before the signature is
\* checked: verifier.verify is looked up, then b64decode(signature) is called
verify_raises(signature, vrf) ==
    IF vrf.k # "PKCS115_SigScheme" THEN "AttributeError"
    ELSE IF signature.k # "str" THEN "TypeError"
    ELSE b64decode_raises(signature.v)

\* faulty variant: the keys are kept in the order of the raw body
project_raw_order(data, keys) ==
    PyDict(SelectSeq(data.v, LAMBDA kv : \E i \in 1..Len(keys) : keys[i] = kv[1]))

\* o = OrderedDict(); for k in keys: if k in data: o[k] = data[k]
project(data, keys) ==
    LET present == SelectSeq(keys, LAMBDA key : od_has(data, key))
    IN  PyDict([i \in 1..Len(present) |-> <<present[i], od_get(data, present[i])>>])

\* faulty variant: a failed verification is let through
check_signature_lenient(p, signature, vrf) ==
    IF verify_raises(signature, vrf) # "" THEN verify_raises(signature, vrf)
    ELSE ""

\* if not verify(payload, signature, verifier): raise CsobVerifyError
check_signature(p, signature, vrf) ==
    IF verify_raises(signature, vrf) # "" THEN verify_raises(signature, vrf)
    ELSE IF ~verify(p, signature.v, vrf.v) THEN "CsobVerifyError"
    ELSE ""

\* faulty variant: the decoded timestamp replaces the original field
with_dttime_replacing(p) ==
    IF ~od_has(p, R_dttm) THEN [exc |-> "", value |-> p]
    ELSE LET dt == dttm_decode(od_get(p, R_dttm))
         IN  [exc |-> dt.exc, value |-> od_set(p, R_dttm, dt.value)]

\* if "dttm" in payload: payload["dttime"] = dttm_decode(payload["dttm"])
with_dttime(p) ==
    IF ~od_has(p, R_dttm) THEN [exc |-> "", value |-> p]
    ELSE LET dt == dttm_decode(od_get(p, R_dttm))
         IN  [exc |-> dt.exc, value |-> od_set(p, R_dttime, dt.value)]

maskclnrp_keys ==
    <<R_extension, R_dttm, R_maskedCln, R_expiration, R_longMaskedCln>>

\* faulty variant: one more key is taken over from the extension
maskclnrp_wider(one) == project(one, maskclnrp_keys \o <<R_bonus>>)

\* o = OrderedDict(); for k in maskclnrp_keys: if k in one: o[k] = one[k]
maskclnrp(one) == project(one, maskclnrp_keys)

\* faulty variant: the signature is checked only where there is one
extension_check_if_signed(one, vrf) ==
    IF ~od_has(one, K_signature) THEN ""
    ELSE check_signature(maskclnrp(one), od_get(one, K_signature), vrf)

\* verify(o, one['signature'], verifier), else raise CsobVerifyError: the
\* exception raised for one masked-card extension ("" when it verifies)
extension_check(one, vrf) ==
    IF ~od_has(one, K_signature) THEN "KeyError"
    ELSE check_signature(maskclnrp(one), od_get(one, K_signature), vrf)

\* faulty variant: an extension that does not verify is left out
RECURSIVE verify_extensions_skipping(_, _, _)
verify_extensions_skipping(exts, vrf, done) ==
    IF exts = <<>> THEN [exc |-> "", extensions |-> done]
    ELSE LET one == exts[1]
             rest == SubSeq(exts, 2, Len(exts))
         IN  IF ~od_has(one, R_extension)
             THEN [exc |-> "KeyError", extensions |-> done]
             ELSE IF od_get(one, R_extension) # PyStr(S_maskClnRP)
             THEN verify_extensions_skipping(rest, vrf, done)
             ELSE IF ~od_has(one, K_signature)
             THEN [exc |-> "KeyError", extensions |-> done]
             ELSE IF check_signature(maskclnrp(one), od_get(one, K_signature), vrf) = ""
             THEN verify_extensions_skipping(rest, vrf, Append(done, maskclnrp(one)))
             ELSE verify_extensions_skipping(rest, vrf, done)

\* for one in data['extensions']: ...  (done: response.extensions so far)
RECURSIVE verify_extensions(_, _, _)
verify_extensions(exts, vrf, done) ==
    IF exts = <<>> THEN [exc |-> "", extensions |-> done]
    ELSE LET one == exts[1]
             rest == SubSeq(exts, 2, Len(exts))
         IN  IF ~od_has(one, R_extension)
             THEN [exc |-> "KeyError", extensions |-> done]
             ELSE IF od_get(one, R_extension) # PyStr(S_maskClnRP)
             THEN verify_extensions(rest, vrf, done)
             ELSE LET e == extension_check(one, vrf)
                  IN  IF e = ""
                      THEN verify_extensions(rest, vrf, Append(done, maskclnrp(one)))
                      ELSE [exc |-> e, extensions |-> done]

\* a requests.Response: its status, its parsed body, and the attributes
\* validate_response assigns
Response(status_code, json) ==
    [status_code |-> status_code, json |-> json,
     payload |-> Unset, extensions |-> Unset]

\* validate_response(response, verifier): the exception raised ("" on
\* return) and the response object as the call leaves it
validate_response(resp, vrf) ==
    LET data == od_without(resp.json, K_signature)
        payload0 == project(data, RESPONSE_KEYS)
        fail(e) == [exc |-> e, response |-> resp]
    IN  IF resp.status_code >= 400 THEN fail("HTTPError")
        ELSE IF ~od_has(resp.json, K_signature) THEN fail("KeyError")
        ELSE LET e == check_signature(payload0, od_get(resp.json, K_signature), vrf)
                 dt == with_dttime(payload0)
             IN  IF e # "" THEN fail(e)
                 ELSE IF dt.exc # "" THEN fail(dt.exc)
                 ELSE LET exts == IF od_has(data, R_extensions)
                                  THEN verify_extensions(od_get(data, R_extensions).v,
                                                         vrf, <<>>)
                                  ELSE [exc |-> "", extensions |-> <<>>]
                      IN  [exc |-> exts.exc,
                           response |-> [resp EXCEPT
                                            !.payload = dt.value,
                                            !.extensions = PyList(exts.extensions)]]

\* the loop of _gateway_return: resultCode and paymentStatus go through int
RECURSIVE retyped(_, _)
retyped(datadict, keys) ==
    IF keys = <<>> THEN [exc |-> "", value |-> PyDict(<<>>)]
    ELSE LET k == keys[Len(keys)]
             before == retyped(datadict, SubSeq(keys, 1, Len(keys) - 1))
         IN  IF before.exc # "" \/ ~od_has(datadict, k) THEN before
             ELSE IF k \in {R_resultCode, R_paymentStatus}
             THEN LET n == int(od_get(datadict, k))
                  IN  [exc |-> n.exc, value |-> od_set(before.value, k, n.value)]
             ELSE [exc |-> "", value |-> od_set(before.value, k, od_get(datadict, k))]

\* CsobClient._gateway_return(datadict) of a client whose f_pubkey is vrf:
\* the exception raised ("" on return) and the map returned
_gateway_return(vrf, datadict) ==
    LET o == retyped(datadict, RESPONSE_KEYS)
        fail(e) == [exc |-> e, value |-> Unset]
    IN  IF o.exc # "" THEN fail(o.exc)
        ELSE IF ~od_has(datadict, K_signature) THEN fail("KeyError")
        ELSE LET e == check_signature(o.value, od_get(datadict, K_signature), vrf)
                 dt == with_dttime(o.value)
             IN  IF e # "" THEN fail(e)
                 ELSE IF dt.exc # "" THEN fail(dt.exc)
                 ELSE IF ~od_has(dt.value, R_merchantData)
                 THEN [exc |-> "", value |-> dt.value]
                 ELSE LET md == od_get(dt.value, R_merchantData)
                      IN  IF md.k # "str" THEN fail("TypeError")
                          ELSE IF Len(md.v) % 4 # 0 THEN fail("binascii.Error")
                          ELSE [exc |-> "",
                                value |-> od_set(dt.value, R_merchantData,
                                                 PyBytes(b64decode(md.v)))]

-----------------------------------------------------------------------------
(* The response scenario: the gateway answers with a body; the body is     *)
(* handed to validate_response as a requests.Response, or to the client's  *)
(* _gateway_return as the data of the return request.                      *)

MaxExt == 2

KEY_PATH == <<116, 101, 115, 116, 46, 107, 101, 121>>  \* 'test.key'
PAY_ID == <<51, 52, 97, 101, 53, 53, 101, 98, 54, 57, 101, 50, 99, 66, 70>>  \* '34ae55eb69e2cBF'
S_dttm == <<50, 48, 49, 57, 48, 53, 48, 50, 49, 54, 49, 52, 50, 54>>  \* '20190502161426'
S_dttm_feb30 == <<50, 48, 49, 57, 48, 50, 51, 48, 49, 54, 49, 52, 50, 54>>  \* '20190230161426'
S_OK == <<79, 75>>  \* 'OK'
S_110 == <<49, 49, 48>>  \* '110'
S_007 == <<48, 48, 55>>  \* '007'
S_7 == <<55>>  \* '7'
S_Rm9v == <<82, 109, 57, 118>>  \* 'Rm9v'
S_masked == <<42, 42, 42, 42, 49, 50, 51, 52>>  \* '****1234'
S_expiration == <<49, 50, 47, 50, 48>>  \* '12/20'
S_long == <<80, 80, 80, 80, 80, 80, 42, 42, 42, 42, 88, 88, 88, 88>>  \* 'PPPPPP****XXXX'

\* the key the gateway signs with, and a key that is not the gateway's
GatewaySigner == PKCS1_v1_5_new(3)
StrangerSigner == PKCS1_v1_5_new(2)

\* what the caller hands over as verifier: the scheme of the gateway's
\* public key, or the path of the key file as CsobClient.__init__ stores it
PublicKeys == {PyKey(PKCS1_v1_5_new(3)), PyStr(KEY_PATH)}

\* the pairs whose value is not Unset
given(kvs) == SelectSeq(kvs, LAMBDA kv : kv[2] # Unset)

\* the recognised fields of an answer, in the order the gateway signs them
Answers ==
    {given(<<<<R_payId, PyStr(PAY_ID)>>, <<R_dttm, t>>, <<R_resultCode, c>>,
             <<R_resultMessage, PyStr(S_OK)>>, <<R_paymentStatus, s>>,
             <<R_merchantData, m>>>>) :
        t \in {Unset, PyStr(S_dttm), PyStr(S_dttm_feb30)},
        c \in {PyInt(0), PyStr(S_110), PyStr(S_007)},
        s \in {Unset, PyStr(S_7)},
        m \in {Unset, PyStr(S_Rm9v)}}

reversed(s) == [i \in 1..Len(s) |-> s[Len(s) + 1 - i]]
rotated(s) == IF s = <<>> THEN s ELSE SubSeq(s, 2, Len(s)) \o <<s[1]>>

\* the orders in which the body may carry its keys
Arrangements(kvs) == {kvs, reversed(kvs), rotated(kvs)}

\* the signature in the body: the gateway's over the canonical order, the
\* gateway's over the order of the body, a stranger's, one cut short, none,
\* and the gateway's and a stranger's with a '!' put in front
SignatureKinds ==
    {"canonical", "raw", "stranger", "cut", "none", "foreign", "foreign_stranger"}

Signature(kind, canonical, raw) ==
    CASE kind = "canonical" -> PyStr(sign(PyDict(canonical), GatewaySigner))
      [] kind = "raw" -> PyStr(sign(PyDict(raw), GatewaySigner))
      [] kind = "stranger" -> PyStr(sign(PyDict(canonical), StrangerSigner))
      [] kind = "cut" ->
            LET whole == sign(PyDict(canonical), GatewaySigner)
            IN  PyStr(SubSeq(whole, 1, Len(whole) - 1))
      [] kind = "foreign" -> PyStr(<<33>> \o sign(PyDict(canonical), GatewaySigner))
      [] kind = "foreign_stranger" ->
            PyStr(<<33>> \o sign(PyDict(canonical), StrangerSigner))
      [] OTHER -> Unset

\* a body: the fields as arranged, then a key the client does not know of
\* (if any), then the signature (if any)
Body(raw, extra, signature) ==
    PyDict(raw \o given(<<<<R_bonus, extra>>, <<K_signature, signature>>>>))

PlainBodiesOf(a) ==
    {Body(raw, extra, Signature(kind, a, raw)) :
        raw \in Arrangements(a),
        extra \in {Unset, PyStr(S_X)},
        kind \in SignatureKinds}

PlainBodies == UNION {PlainBodiesOf(a) : a \in Answers}

\* the fields of a masked-card extension, in the order the gateway signs them
MaskedCard ==
    <<<<R_extension, PyStr(S_maskClnRP)>>, <<R_dttm, PyStr(S_dttm)>>,
      <<R_maskedCln, PyStr(S_masked)>>, <<R_expiration, PyStr(S_expiration)>>,
      <<R_longMaskedCln, PyStr(S_long)>>>>

\* the extensions a body may carry: a masked-card extension signed by the
\* gateway, one signed by a stranger, one with a further key that the
\* signature leaves out, one with a further key that the signature covers,
\* one without a signature, and an extension of another kind
ExtensionKinds == {"good", "stranger", "bonus", "bonus_signed", "other", "unsigned"}

Extension(kind) ==
    CASE kind = "good" ->
            mk_payload(GatewaySigner, MaskedCard)
      [] kind = "stranger" ->
            mk_payload(StrangerSigner, MaskedCard)
      [] kind = "bonus" ->
            PyDict(<<<<R_bonus, PyStr(S_X)>>>>
                   \o mk_payload(GatewaySigner, MaskedCard).v)
      [] kind = "unsigned" ->
            PyDict(MaskedCard)
      [] kind = "bonus_signed" ->
            mk_payload(GatewaySigner, MaskedCard \o <<<<R_bonus, PyStr(S_X)>>>>)
      [] OTHER ->
            mk_payload(StrangerSigner,
                       <<<<R_extension, PyStr(S_trxDates)>>, <<R_dttm, PyStr(S_dttm)>>>>)

ExtensionLists ==
    UNION {[1..n -> {Extension(kind) : kind \in ExtensionKinds}] : n \in 0..MaxExt}

\* the answer the bodies with extensions are built on
StatusAnswer ==
    <<<<R_payId, PyStr(PAY_ID)>>, <<R_dttm, PyStr(S_dttm)>>,
      <<R_resultCode, PyInt(0)>>, <<R_resultMessage, PyStr(S_OK)>>,
      <<R_paymentStatus, PyStr(S_7)>>>>

ExtendedBodies ==
    {PyDict(StatusAnswer
            \o <<<<K_signature, Signature(kind, StatusAnswer, StatusAnswer)>>,
                 <<R_extensions, PyList(exts)>>>>) :
        kind \in {"canonical", "stranger"}, exts \in ExtensionLists}

Responses ==
    {Response(200, b) : b \in PlainBodies \cup ExtendedBodies}
    \cup {Response(500, b) : b \in PlainBodiesOf(StatusAnswer)}

InitResp ==
    /\ response \in Responses
    /\ f_pubkey \in PublicKeys
    /\ handler = "none"
    /\ raised = ""
    /\ returned = Unset
    /\ rstage = "received"

IdleResp ==
    /\ response = Unset
    /\ f_pubkey = Unset
    /\ handler = "none"
    /\ raised = ""
    /\ returned = Unset
    /\ rstage = "idle"

\* returned = validate_response(response, f_pubkey)
ValidateResponse ==
    /\ rstage = "received"
    /\ LET r == validate_response(response, f_pubkey)
       IN  /\ response' = r.response
           /\ raised' = r.exc
           /\ returned' = IF r.exc = "" THEN r.response ELSE Unset
    /\ handler' = "validate_response"
    /\ rstage' = "handled"
    /\ UNCHANGED <<f_pubkey, signVars, dictVars, callVars, threadVars, cardVars>>

\* returned = client._gateway_return(response.json())
GatewayReturn ==
    /\ rstage = "received"
    /\ LET r == _gateway_return(f_pubkey, response.json)
       IN  /\ raised' = r.exc
           /\ returned' = r.value
    /\ handler' = "_gateway_return"
    /\ rstage' = "handled"
    /\ UNCHANGED <<response, f_pubkey, signVars, dictVars, callVars, threadVars, cardVars>>

-----------------------------------------------------------------------------
(* utils.py / client.py: the requests of the client *)

Q_merchantId == <<109, 101, 114, 99, 104, 97, 110, 116, 73, 100>>  \* 'merchantId'
Q_orderNo == <<111, 114, 100, 101, 114, 78, 111>>  \* 'orderNo'
Q_payOperation == <<112, 97, 121, 79, 112, 101, 114, 97, 116, 105, 111, 110>>  \* 'payOperation'
Q_payMethod == <<112, 97, 121, 77, 101, 116, 104, 111, 100>>  \* 'payMethod'
Q_totalAmount == <<116, 111, 116, 97, 108, 65, 109, 111, 117, 110, 116>>  \* 'totalAmount'
Q_currency == <<99, 117, 114, 114, 101, 110, 99, 121>>  \* 'currency'
Q_closePayment == <<99, 108, 111, 115, 101, 80, 97, 121, 109, 101, 110, 116>>  \* 'closePayment'
Q_returnUrl == <<114, 101, 116, 117, 114, 110, 85, 114, 108>>  \* 'returnUrl'
Q_returnMethod == <<114, 101, 116, 117, 114, 110, 77, 101, 116, 104, 111, 100>>  \* 'returnMethod'
Q_cart == <<99, 97, 114, 116>>  \* 'cart'
Q_customer == <<99, 117, 115, 116, 111, 109, 101, 114>>  \* 'customer'
Q_order == <<111, 114, 100, 101, 114>>  \* 'order'
Q_customerId == <<99, 117, 115, 116, 111, 109, 101, 114, 73, 100>>  \* 'customerId'
Q_language == <<108, 97, 110, 103, 117, 97, 103, 101>>  \* 'language'
Q_ttlSec == <<116, 116, 108, 83, 101, 99>>  \* 'ttlSec'
Q_logoVersion == <<108, 111, 103, 111, 86, 101, 114, 115, 105, 111, 110>>  \* 'logoVersion'
Q_colorSchemeVersion == <<99, 111, 108, 111, 114, 83, 99, 104, 101, 109, 101, 86, 101, 114, 115, 105, 111, 110>>  \* 'colorSchemeVersion'
Q_customExpiry == <<99, 117, 115, 116, 111, 109, 69, 120, 112, 105, 114, 121>>  \* 'customExpiry'
Q_clientIp == <<99, 108, 105, 101, 110, 116, 73, 112>>  \* 'clientIp'
Q_brand == <<98, 114, 97, 110, 100>>  \* 'brand'
S_payment == <<112, 97, 121, 109, 101, 110, 116>>  \* 'payment'
S_card == <<99, 97, 114, 100>>  \* 'card'
S_CZK == <<67, 90, 75>>  \* 'CZK'
S_POST == <<80, 79, 83, 84>>  \* 'POST'
S_GET == <<71, 69, 84>>  \* 'GET'
S_cs == <<99, 115>>  \* 'cs'
S_csob == <<99, 115, 111, 98>>  \* 'csob'
BASE_URL == <<104, 116, 116, 112, 115, 58, 47, 47, 103, 119, 46, 99, 122>>  \* 'https://gw.cz'
E_payment_init == <<112, 97, 121, 109, 101, 110, 116, 47, 105, 110, 105, 116>>  \* 'payment/init'
E_button_init == <<98, 117, 116, 116, 111, 110, 47, 105, 110, 105, 116>>  \* 'button/init'
E_echo == <<101, 99, 104, 111, 47>>  \* 'echo/'
S_MERCHANT == <<77, 69, 82, 67, 72, 65, 78, 84>>  \* 'MERCHANT'
S_dots == <<46, 46>>  \* '..'
S_dot == <<46>>  \* '.'
S_shop == <<109, 121, 32, 115, 104, 111, 112, 43, 49>>  \* 'my shop+1'
S_return_url == <<104, 116, 116, 112, 58, 47, 47, 101, 120, 97, 109, 112, 108, 101, 46, 99, 111, 109>>  \* 'http://example.com'
S_ip == <<49, 50, 55, 46, 48, 46, 48, 46, 49>>  \* '127.0.0.1'
S_popis == <<112, 111, 112, 105, 115>>  \* 'popis'

\* s.split(c)
RECURSIVE split_at(_, _)
split_at(s, c) ==
    IF \A i \in 1..Len(s) : s[i] # c THEN <<s>>
    ELSE LET i == CHOOSE n \in 1..Len(s) : s[n] = c /\ \A m \in 1..(n - 1) : s[m] # c
         IN  <<SubSeq(s, 1, i - 1)>> \o split_at(SubSeq(s, i + 1, Len(s)), c)

\* c.join(items)
join_with(items, c) ==
    concat([i \in 1..Len(items) |-> IF i = 1 THEN items[i] ELSE <<c>> \o items[i]])

hexdigit(n) == IF n < 10 THEN 48 + n ELSE 55 + n

\* urllib.parse.quote_plus of one character: letters, digits and _.-~ are
\* kept, a blank becomes '+', every other character is the %XX of its bytes
quote_char(c) ==
    IF c \in 48..57 \/ c \in 65..90 \/ c \in 97..122 \/ c \in {95, 46, 45, 126}
    THEN <<c>>
    ELSE IF c = 32 THEN <<43>>
    ELSE LET bs == encode_char(c)
         IN  concat([i \in 1..Len(bs) |->
                        <<37, hexdigit(bs[i] \div 16), hexdigit(bs[i] % 16)>>])

\* urllib.parse.quote_plus(value)
quote_plus(s) == concat([i \in 1..Len(s) |-> quote_char(s[i])])

\* the path of urljoin's result: '.' and '..' segments are resolved
RECURSIVE resolve(_, _)
resolve(segments, resolved) ==
    IF segments = <<>> THEN resolved
    ELSE LET seg == segments[1]
             rest == SubSeq(segments, 2, Len(segments))
         IN  IF seg = <<46, 46>>
             THEN resolve(rest, IF resolved = <<>> THEN resolved
                                ELSE SubSeq(resolved, 1, Len(resolved) - 1))
             ELSE IF seg = <<46>> THEN resolve(rest, resolved)
             ELSE resolve(rest, Append(resolved, seg))

\* the length of scheme://authority in an absolute URL
origin_length(url) ==
    LET start == CHOOSE i \in 1..Len(url) :
                     /\ SubSeq(url, i, i + 2) = <<58, 47, 47>>
                     /\ \A j \in 1..(i - 1) : SubSeq(url, j, j + 2) # <<58, 47, 47>>
        slashes == {i \in (start + 3)..Len(url) : url[i] = 47}
    IN  IF slashes = {} THEN Len(url)
        ELSE (CHOOSE i \in slashes : \A j \in slashes : i <= j) - 1

\* urljoin: the segments of the base path, without its last one unless that
\* is empty, followed by the segments of the relative path
base_parts(bpath, url) ==
    (IF split_at(bpath, 47)[Len(split_at(bpath, 47))] # <<>>
     THEN SubSeq(split_at(bpath, 47), 1, Len(split_at(bpath, 47)) - 1)
     ELSE split_at(bpath, 47))
    \o split_at(url, 47)

\* urljoin: empty segments are dropped, except the first and the last
segments(all) ==
    <<all[1]>>
    \o SelectSeq(SubSeq(all, 2, Len(all) - 1), LAMBDA seg : seg # <<>>)
    \o <<all[Len(all)]>>

\* urljoin: the resolved path; a final '.' or '..' leaves a closing '/'
resolved_path(segs) ==
    resolve(segs, <<>>)
    \o (IF segs[Len(segs)] \in {<<46>>, <<46, 46>>} THEN <<<<>>>> ELSE <<>>)

\* urljoin: the path starts with '/'
rooted(path) == IF path = <<>> \/ path[1] # 47 THEN <<47>> \o path ELSE path

\* urljoin: the path of base, from position n + 1 on, joined with url
join_path(base, n, url) ==
    SubSeq(base, 1, n)
    \o rooted(join_with(resolved_path(segments(
           base_parts(SubSeq(base, n + 1, Len(base)), url))), 47))

\* urllib.parse.urljoin(base, url) of an absolute base without query and a
\* relative path without query that does not start with '/'
urljoin(base, url) ==
    IF url = <<>> THEN base ELSE join_path(base, origin_length(base), url)

\* mk_url: the values of the payload are joined to the URL of the endpoint
with_payload(url, p) ==
    IF p = Unset THEN url
    ELSE urljoin(url, join_with([i \in 1..Len(p.v) |-> quote_plus(p.v[i][2].v)], 47))

\* mk_url(base_url, endpoint_url, payload): payload Unset when not given
mk_url(base_url, endpoint_url, p) == with_payload(urljoin(base_url, endpoint_url), p)

MaxEncoded == 255

\* faulty variant: the length of the encoding is not checked
encode_merchant_data_unchecked(merchant_data) ==
    IF merchant_data = PyNone THEN [exc |-> "", value |-> PyNone]
    ELSE [exc |-> "", value |-> PyStr(b64encode(merchant_data.v))]

\* encode_merchant_data(merchant_data)
encode_merchant_data(merchant_data) ==
    IF merchant_data = PyNone THEN [exc |-> "", value |-> PyNone]
    ELSE LET encoded == b64encode(merchant_data.v)
         IN  IF Len(encoded) > MaxEncoded
             THEN [exc |-> "ValueError", value |-> PyNone]
             ELSE [exc |-> "", value |-> PyStr(encoded)]

\* a CsobClient: what __init__ stores
CsobClient(merchant_id, base_url, private_key_file, csob_pub_key_file) ==
    [merchant_id |-> merchant_id, base_url |-> base_url,
     f_key |-> private_key_file, f_pubkey |-> csob_pub_key_file]

\* utils.mk_payload(self.f_key, pairs): sign looks up signer.sign
client_payload(self, kvs) ==
    IF self.f_key.k # "PKCS115_SigScheme"
    THEN [exc |-> "AttributeError", value |-> PyNone]
    ELSE [exc |-> "", value |-> mk_payload(self.f_key.v, kvs)]

\* json.dumps(payload): the text of the body, held as the map it writes out
json_dumps(p) == [k |-> "json", v |-> p.v]

\* a request the session sends
Request(method, url, data) == [method |-> method, url |-> url, data |-> data]

\* the end of every call: the pairs are made into a payload, the request is
\* sent, and the reply is validated.  The result is the exception raised,
\* the requests sent and the response returned.
send(self, method, endpoint_url, kvs, in_path, reply) ==
    LET p == client_payload(self, kvs)
    IN  IF p.exc # "" THEN [exc |-> p.exc, sent |-> <<>>, value |-> Unset]
        ELSE LET url == mk_url(self.base_url, endpoint_url,
                               IF in_path THEN p.value ELSE Unset)
                 r == validate_response(reply, self.f_pubkey)
             IN  [exc |-> r.exc,
                  sent |-> <<Request(method, url,
                                    IF in_path THEN PyNone ELSE json_dumps(p.value))>>,
                  value |-> IF r.exc = "" THEN r.response ELSE Unset]

\* faulty variant: only a cart that is None is filled
fill_cart_if_none(cart, description, total_amount) ==
    IF cart = PyNone
    THEN <<CartItem(description, PyInt(1), total_amount, PyNone)>>
    ELSE cart.v

\* payment_init: "fill cart if not set" (not cart: None or an empty list)
fill_cart(cart, description, total_amount) ==
    IF cart = PyNone \/ cart.v = <<>>
    THEN <<CartItem(description, PyInt(1), total_amount, PyNone)>>
    ELSE cart.v

\* CsobClient.payment_init(order_no, total_amount, return_url, description,
\* cart=cart, merchant_data=merchant_data), the other arguments at their defaults
payment_init(self, order_no, total_amount, return_url, description, given_cart, merchant_data, now, reply) ==
    LET cart == fill_cart(given_cart, description, total_amount)
        md == encode_merchant_data(merchant_data)
    IN  IF md.exc # "" THEN [exc |-> md.exc, sent |-> <<>>, value |-> Unset]
        ELSE send(self, S_POST, E_payment_init,
                  <<<<Q_merchantId, self.merchant_id>>,
                    <<Q_orderNo, PyStr(str(order_no))>>,
                    <<R_dttm, PyStr(now)>>,
                    <<Q_payOperation, PyStr(S_payment)>>,
                    <<Q_payMethod, PyStr(S_card)>>,
                    <<Q_totalAmount, total_amount>>,
                    <<Q_currency, PyStr(S_CZK)>>,
                    <<Q_closePayment, PyBool(TRUE)>>,
                    <<Q_returnUrl, return_url>>,
                    <<Q_returnMethod, PyStr(S_POST)>>,
                    <<Q_cart, PyList([i \in 1..Len(cart) |-> to_dict(cart[i])])>>,
                    <<Q_customer, PyNone>>,
                    <<Q_order, PyNone>>,
                    <<R_merchantData, md.value>>,
                    <<Q_customerId, PyNone>>,
                    <<Q_language, PyStr(S_cs)>>,
                    <<Q_ttlSec, PyInt(600)>>,
                    <<Q_logoVersion, PyNone>>,
                    <<Q_colorSchemeVersion, PyNone>>,
                    <<Q_customExpiry, PyNone>>>>,
                  FALSE, reply)

\* CsobClient.button_init(order_no, total_amount, client_ip, return_url,
\* merchant_data=merchant_data)
button_init(self, order_no, total_amount, client_ip, return_url, merchant_data, now, reply) ==
    LET md == encode_merchant_data(merchant_data)
    IN  IF md.exc # "" THEN [exc |-> md.exc, sent |-> <<>>, value |-> Unset]
        ELSE send(self, S_POST, E_button_init,
                  <<<<Q_merchantId, self.merchant_id>>,
                    <<Q_orderNo, PyStr(str(order_no))>>,
                    <<R_dttm, PyStr(now)>>,
                    <<Q_clientIp, client_ip>>,
                    <<Q_totalAmount, total_amount>>,
                    <<Q_currency, PyStr(S_CZK)>>,
                    <<Q_returnUrl, return_url>>,
                    <<Q_returnMethod, PyStr(S_POST)>>,
                    <<Q_brand, PyStr(S_csob)>>,
                    <<R_merchantData, md.value>>,
                    <<Q_language, PyStr(S_cs)>>>>,
                  FALSE, reply)

\* CsobClient.echo(method)
echo(self, method, now, reply) ==
    send(self, method, E_echo,
         <<<<Q_merchantId, self.merchant_id>>, <<R_dttm, PyStr(now)>>>>,
         method # S_POST, reply)

-----------------------------------------------------------------------------
(* The request scenario: a client is constructed and one of its calls is   *)
(* made; the gateway's reply is one of a few responses.                    *)

\* merchant ids: an identifier, one with characters that are quoted, and
\* the two path segments urljoin resolves
MerchantIds == {PyStr(S_MERCHANT), PyStr(S_shop), PyStr(S_dots), PyStr(S_dot)}

\* the private key handed to the client: a signature scheme, or the path
\* of the key file
PrivateKeys == {PyKey(MerchantSigner), PyStr(KEY_PATH)}

Clients ==
    {CsobClient(m, BASE_URL, key, pub) :
        m \in MerchantIds, key \in PrivateKeys, pub \in PublicKeys}

\* merchant data: none, or n bytes (189 bytes encode to 252 characters,
\* 190 bytes to 256)
MerchantDataLengths == {0, 1, 189, 190}

MerchantData ==
    {PyNone} \cup {PyBytes([i \in 1..n |-> i % 256]) : n \in MerchantDataLengths}

\* what the gateway may answer
Replies ==
    {Response(200, Body(StatusAnswer, Unset, Signature(kind, StatusAnswer, StatusAnswer))) :
        kind \in {"canonical", "stranger"}}
    \cup {Response(500, PyDict(<<>>))}

InitCall ==
    /\ client \in Clients
    /\ call = <<>>
    /\ http = <<>>
    /\ craised = ""
    /\ creturned = Unset
    /\ cstage = "ready"

IdleCall ==
    /\ client = Unset
    /\ call = <<>>
    /\ http = <<>>
    /\ craised = ""
    /\ creturned = Unset
    /\ cstage = "idle"

\* the call named name with arguments args ended as result tells
Called(name, args, result) ==
    /\ cstage = "ready"
    /\ call' = <<name>> \o args
    /\ http' = result.sent
    /\ craised' = result.exc
    /\ creturned' = result.value
    /\ cstage' = "called"
    /\ UNCHANGED <<client, signVars, dictVars, respVars, threadVars, cardVars>>

\* descriptions: a short one, none, blanks only, one whose 20th character is
\* a blank, and one of 25 characters
Descriptions ==
    {S_popis, <<>>, repeat(32, 2), repeat(120, 19) \o <<32, 120, 120>>, repeat(120, 25)}

S_Postage == <<80, 111, 115, 116, 97, 103, 101>>  \* 'Postage'

\* carts: none, an empty one, and carts of one and of two items
Carts ==
    LET order == CartItem(PyStr(repeat(120, 19) \o <<32, 120>>), PyInt(5), PyInt(12345), PyNone)
        postage == CartItem(PyStr(S_Postage), PyInt(1), PyInt(0),
                            PyStr(repeat(120, 39) \o <<32, 120>>))
    IN  {PyNone, PyList(<<>>), PyList(<<order>>), PyList(<<order, postage>>),
         PyList(<<postage, order>>)}

\* client.payment_init(666, 66600, 'http://example.com', description, cart=cart,
\* merchant_data=md)
PaymentInit ==
    \E md \in MerchantData, reply \in Replies, description \in Descriptions, cart \in Carts :
        Called("payment_init", <<md, cart, PyStr(description)>>,
               payment_init(client, PyInt(666), PyInt(66600), PyStr(S_return_url),
                            PyStr(description), cart, md, S_dttm, reply))

\* client.button_init(666, 66600, '127.0.0.1', 'http://example.com', merchant_data=md)
ButtonInit ==
    \E md \in MerchantData, reply \in Replies :
        Called("button_init", <<md>>,
               button_init(client, PyInt(666), PyInt(66600), PyStr(S_ip),
                           PyStr(S_return_url), md, S_dttm, reply))

\* client.echo(method)
Echo ==
    \E method \in {S_POST, S_GET}, reply \in Replies :
        Called("echo", <<PyStr(method)>>, echo(client, method, S_dttm, reply))

-----------------------------------------------------------------------------
(* Calls running side by side: every thread makes one call of mk_payload   *)
(* or of validate_response, and the calls advance one statement at a time   *)
(* in any interleaving.  What a call works on are its arguments and its     *)
(* locals; the module keeps no state of its own between the statements.     *)

Threads == {1, 2}

\* the locals of a call that has not started
NoFrame ==
    [pc |-> "idle", log |-> <<>>, payload |-> Unset, data |-> Unset,
     signature |-> Unset, msg |-> <<>>, h |-> Unset, i |-> 0,
     response |-> Unset, exc |-> "", result |-> Unset]

\* faulty variant: the locals are kept in one place for all calls
frame_of_module(t) == 1

\* the frame a call of thread t works in: its own
frame_of(t) == t

\* the statement at fr.pc is left for the statement at pc
goto(fr, pc) == [fr EXCEPT !.pc = pc, !.log = Append(@, fr.pc)]

\* the statement at fr.pc raises e
raise(fr, e) == [fr EXCEPT !.pc = "raised", !.exc = e, !.log = Append(@, fr.pc)]

\* the positions of mk_payload (with sign inlined) and of validate_response
mk_payload_pcs == {"filter", "mk_msg_for_sign", "SHA256.new", "sign", "return payload"}
validate_response_pcs ==
    {"raise_for_status", "json", "pop", "project", "verify", "dttm_decode",
     "attributes", "extension", "return response"}

\* one statement of mk_payload(signer, pairs)
mk_payload_step(fr, signer, kvs) ==
    CASE fr.pc = "filter" ->
            [goto(fr, "mk_msg_for_sign") EXCEPT
                !.payload = OrderedDict(SelectSeq(kvs, LAMBDA kv : kv[2] \notin EMPTY_VALUES))]
      [] fr.pc = "mk_msg_for_sign" ->
            [goto(fr, "SHA256.new") EXCEPT !.msg = mk_msg_for_sign(fr.payload)]
      [] fr.pc = "SHA256.new" ->
            [goto(fr, "sign") EXCEPT !.h = SHA256_new(fr.msg)]
      [] fr.pc = "sign" ->
            IF signer.k # "PKCS115_SigScheme" THEN raise(fr, "AttributeError")
            ELSE [goto(fr, "return payload") EXCEPT
                     !.payload = od_set(fr.payload, K_signature,
                                        PyStr(b64encode(PKCS1_sign(signer.v, fr.h))))]
      [] OTHER ->
            [goto(fr, "done") EXCEPT !.result = fr.payload]

\* faulty variant: the timestamp is decoded whatever the check says
after_verify_anyway(fr, e) == goto(fr, "dttm_decode")

\* if not verify(payload, signature, verifier): raise CsobVerifyError
after_verify(fr, e) == IF e # "" THEN raise(fr, e) ELSE goto(fr, "dttm_decode")

\* one statement of validate_response(response, verifier); the response
\* object is fr.response
validate_response_step(fr, vrf) ==
    CASE fr.pc = "raise_for_status" ->
            IF fr.response.status_code >= 400 THEN raise(fr, "HTTPError")
            ELSE goto(fr, "json")
      [] fr.pc = "json" ->
            [goto(fr, "pop") EXCEPT !.data = fr.response.json]
      [] fr.pc = "pop" ->
            IF ~od_has(fr.data, K_signature) THEN raise(fr, "KeyError")
            ELSE [goto(fr, "project") EXCEPT
                     !.signature = od_get(fr.data, K_signature),
                     !.data = od_without(fr.data, K_signature)]
      [] fr.pc = "project" ->
            [goto(fr, "verify") EXCEPT !.payload = project(fr.data, RESPONSE_KEYS)]
      [] fr.pc = "verify" ->
            after_verify(fr, check_signature(fr.payload, fr.signature, vrf))
      [] fr.pc = "dttm_decode" ->
            IF with_dttime(fr.payload).exc # "" THEN raise(fr, with_dttime(fr.payload).exc)
            ELSE [goto(fr, "attributes") EXCEPT !.payload = with_dttime(fr.payload).value]
      [] fr.pc = "attributes" ->
            [goto(fr, IF od_has(fr.data, R_extensions)
                         /\ od_get(fr.data, R_extensions).v # <<>>
                      THEN "extension" ELSE "return response")
                EXCEPT !.response.extensions = PyList(<<>>),
                       !.response.payload = fr.payload,
                       !.i = 1]
      [] fr.pc = "extension" ->
            LET exts == od_get(fr.data, R_extensions).v
                r == verify_extensions(<<exts[fr.i]>>, vrf, fr.response.extensions.v)
            IN  IF r.exc # "" THEN raise(fr, r.exc)
                ELSE [goto(fr, IF fr.i = Len(exts) THEN "return response" ELSE "extension")
                         EXCEPT !.response.extensions = PyList(r.extensions),
                                !.i = fr.i + 1]
      [] OTHER ->
            [goto(fr, "done") EXCEPT !.result = fr.response]

\* the calls a thread may make
MkPayloadJobs ==
    {[op |-> "mk_payload", key |-> key, pairs |-> kvs, response |-> Unset] :
        key \in PrivateKeys,
        kvs \in {Example.v, <<<<K_a, PyStr(S_padX)>>, <<K_b, PyNone>>, <<K_c, PyInt(0)>>>>}}

ThreadBodies ==
    {Body(StatusAnswer, Unset, Signature(kind, StatusAnswer, StatusAnswer)) :
        kind \in {"canonical", "stranger", "none"}}
    \cup {Body(a, Unset, Signature("canonical", a, a)) :
             a \in {<<<<R_dttm, PyStr(S_dttm_feb30)>>, <<R_resultCode, PyInt(0)>>>>}}
    \cup {PyDict(StatusAnswer
                 \o <<<<K_signature, Signature("canonical", StatusAnswer, StatusAnswer)>>,
                      <<R_extensions, PyList(exts)>>>>) :
             exts \in {<<Extension("good"), Extension("other")>>,
                       <<Extension("good"), Extension("stranger")>>}}

ValidateResponseJobs ==
    {[op |-> "validate_response", key |-> PyKey(PKCS1_v1_5_new(3)), pairs |-> <<>>,
      response |-> r] :
        r \in {Response(200, b) : b \in ThreadBodies}
              \cup {Response(500, Body(StatusAnswer, Unset, Unset))}}
    \cup {[op |-> "validate_response", key |-> PyStr(KEY_PATH), pairs |-> <<>>,
           response |-> Response(200, Body(StatusAnswer, Unset,
                                           Signature("canonical", StatusAnswer, StatusAnswer)))]}

Jobs == MkPayloadJobs \cup ValidateResponseJobs

InitThreads ==
    /\ job \in [Threads -> Jobs]
    /\ frame = [t \in Threads |-> NoFrame]

IdleThreads ==
    /\ job = <<>>
    /\ frame = <<>>

\* thread t enters its call: the arguments are bound
Enter(t) ==
    /\ frame[frame_of(t)].pc = "idle"
    /\ frame' = [frame EXCEPT ![frame_of(t)] =
                    [NoFrame EXCEPT
                        !.pc = IF job[t].op = "mk_payload" THEN "filter"
                               ELSE "raise_for_status",
                        !.response = job[t].response]]
    /\ UNCHANGED <<job, signVars, dictVars, respVars, callVars, cardVars>>

\* thread t executes the next statement of mk_payload
MkPayloadStep(t) ==
    /\ job[t].op = "mk_payload"
    /\ frame[frame_of(t)].pc \in mk_payload_pcs
    /\ frame' = [frame EXCEPT ![frame_of(t)] =
                    mk_payload_step(frame[frame_of(t)], job[t].key, job[t].pairs)]
    /\ UNCHANGED <<job, signVars, dictVars, respVars, callVars, cardVars>>

\* thread t executes the next statement of validate_response
ValidateResponseStep(t) ==
    /\ job[t].op = "validate_response"
    /\ frame[frame_of(t)].pc \in validate_response_pcs
    /\ frame' = [frame EXCEPT ![frame_of(t)] =
                    validate_response_step(frame[frame_of(t)], job[t].key)]
    /\ UNCHANGED <<job, signVars, dictVars, respVars, callVars, cardVars>>

-----------------------------------------------------------------------------

(* utils.py: the card providers.  A pattern is a set of alternatives; an  *)
(* alternative is the sequence of its character classes and whether it    *)
(* ends in '$'.  conf.py is not part of the source tree: a provider id is  *)
(* written as the name of its constant, and the second component of the    *)
(* result, conf.CARD_PROVIDERS[provider_id], is left out.                  *)

D09 == 48..57                    \* [0-9]
Decimal == D09 \cup (1632..1641) \* \d on a str: the decimal digits of Unicode
                                 \* (of these, the ASCII and the Arabic-Indic)
chr(c) == {c}

\* n classes [0-9]
digits(n) == [i \in 1..n |-> D09]

alt(classes, dollar) == [classes |-> classes, dollar |-> dollar]

RX_VISA ==
    {alt(<<chr(52)>> \o [i \in 1..5 |-> Decimal], TRUE)}
RX_AMEX ==
    {alt(<<chr(51), {52, 55}>> \o [i \in 1..4 |-> Decimal], TRUE)}
RX_DINERS ==
    {alt(<<chr(51), chr(48), 48..53>> \o digits(4), TRUE),
     alt(<<chr(51), {54, 56}, D09>> \o digits(4), TRUE)}
RX_JCB ==
    {alt(<<chr(50), chr(49), chr(51), chr(49)>> \o digits(2), TRUE),
     alt(<<chr(49), chr(56), chr(48), chr(48)>> \o digits(2), TRUE),
     alt(<<chr(51), chr(53)>> \o digits(2) \o digits(2), TRUE)}
\* '^' stands in the first alternative and '$' in the last one only
RX_MC ==
    {alt(<<chr(53), 49..53>> \o digits(4), FALSE),
     alt(<<chr(50), chr(50), chr(50), 49..57>> \o digits(2), FALSE),
     alt(<<chr(50), chr(50), 51..57>> \o digits(4), FALSE),
     alt(<<chr(50), 51..54>> \o digits(5), FALSE),
     alt(<<chr(50), chr(55), {48, 49}>> \o digits(4), FALSE),
     alt(<<chr(50), chr(55), chr(50), chr(48)>> \o digits(2), TRUE)}

PROVIDERS ==
    <<<<"CARD_PROVIDER_VISA", RX_VISA>>, <<"CARD_PROVIDER_AMEX", RX_AMEX>>,
      <<"CARD_PROVIDER_DINERS", RX_DINERS>>, <<"CARD_PROVIDER_JCB", RX_JCB>>,
      <<"CARD_PROVIDER_MC", RX_MC>>>>

\* '$': at the end of the string, or before a newline that ends it
at_end(s, n) == Len(s) = n \/ (Len(s) = n + 1 /\ s[n + 1] = 10)

\* rx.match(s): one of the alternatives matches at the start of s
match(rx, s) ==
    \E a \in rx :
        /\ Len(s) >= Len(a.classes)
        /\ \A i \in 1..Len(a.classes) : s[i] \in a.classes[i]
        /\ a.dollar => at_end(s, Len(a.classes))

\* long_masked_number[:6]
first_six(s) == SubSeq(s, 1, IF Len(s) < 6 THEN Len(s) ELSE 6)

\* get_card_provider(long_masked_number): the provider id of the first
\* pattern that matches, "None" where none does
RECURSIVE get_card_provider_from(_, _)
get_card_provider_from(i, s) ==
    IF i > Len(PROVIDERS) THEN "None"
    ELSE IF match(PROVIDERS[i][2], first_six(s)) THEN PROVIDERS[i][1]
    ELSE get_card_provider_from(i + 1, s)

get_card_provider(s) == get_card_provider_from(1, s)

\* the decimal digits of n, zero-padded to width w
RECURSIVE zfill(_, _)
zfill(n, w) ==
    IF w = 0 THEN <<>> ELSE Append(zfill(n \div 10, w - 1), 48 + (n % 10))

S_Masked0000 == <<42, 42, 42, 42, 48, 48, 48, 48>>  \* '****0000'

\* the first and the last BIN of each range of the patterns, and their
\* neighbours
Bins ==
    {400000, 423451, 499999, 399999, 500000,
     340000, 349999, 370000, 379999, 350000, 359999, 360000,
     300000, 305999, 306000, 380000, 389999,
     213100, 213199, 213200, 180000, 180099, 180100,
     509999, 510000, 534567, 559999, 560000,
     222099, 222100, 222999, 223000, 229999, 230000, 250000, 269999,
     270000, 271999, 272000, 272099, 272100, 220000}

MaskedNumbers ==
    {zfill(b, 6) \o tail : b \in Bins, tail \in {<<>>, S_Masked0000, <<48>>}}
    \cup {<<>>, <<53, 49, 48, 48, 48>>,                 \* '', '51000'
          <<52, 48, 48, 48, 48, 10>>,                   \* '40000\n'
          <<52, 1632, 1632, 1632, 1632, 1632, 42, 42>>, \* '4' and five Arabic-Indic zeros, '**'
          <<120, 53, 49, 48, 48, 48, 48>>,              \* 'x510000'
          <<53, 49, 48, 48, 48, 120, 42, 42>>}          \* '51000x**'

InitCard ==
    /\ long_masked_number \in MaskedNumbers
    /\ provider = "pending"

IdleCard ==
    /\ long_masked_number = <<>>
    /\ provider = "idle"

\* provider, _ = get_card_provider(long_masked_number)
GetCardProvider ==
    /\ provider = "pending"
    /\ provider' = get_card_provider(long_masked_number)
    /\ UNCHANGED <<long_masked_number, signVars, dictVars, respVars, callVars,
                   threadVars>>

-----------------------------------------------------------------------------

Init == InitSign /\ IdleDict /\ IdleResp /\ IdleCall /\ IdleThreads /\ IdleCard
Next == MkPayload \/ VerifyIntact \/ VerifyChanged \/ VerifySwapped
Spec == Init /\ [][Next]_vars

InitD == IdleSign /\ InitDict /\ IdleResp /\ IdleCall /\ IdleThreads /\ IdleCard
NextD == ToDict \/ FlattenDict
SpecDict == InitD /\ [][NextD]_vars

InitR == IdleSign /\ IdleDict /\ InitResp /\ IdleCall /\ IdleThreads /\ IdleCard
NextR == ValidateResponse \/ GatewayReturn
SpecResp == InitR /\ [][NextR]_vars

InitC == IdleSign /\ IdleDict /\ IdleResp /\ InitCall /\ IdleThreads /\ IdleCard
NextC == PaymentInit \/ ButtonInit \/ Echo
SpecCall == InitC /\ [][NextC]_vars

InitT == IdleSign /\ IdleDict /\ IdleResp /\ IdleCall /\ InitThreads /\ IdleCard
NextT == \E t \in Threads : Enter(t) \/ MkPayloadStep(t) \/ ValidateResponseStep(t)
SpecThreads == InitT /\ [][NextT]_vars

InitP == IdleSign /\ IdleDict /\ IdleResp /\ IdleCall /\ IdleThreads /\ InitCard
NextP == GetCardProvider
SpecCard == InitP /\ [][NextP]_vars


-----------------------------------------------------------------------------
(* Reference notions the properties are stated with *)

\* the map that was signed: the payload without its signature
Signed == od_without(payload, K_signature)

IsEmptyValue(value) ==
    \/ value.k = "none"
    \/ value.k \in {"str", "list", "dict"} /\ Len(value.v) = 0

\* the leaves of a value tree, depth first, in list and insertion order
RECURSIVE Leaves(_)
Leaves(value) ==
    IF value.k = "list"
    THEN IF value.v = <<>> THEN <<value>>
         ELSE Leaves(Head(value.v)) \o
              (IF Len(value.v) = 1 THEN <<>> ELSE Leaves(PyList(Tail(value.v))))
    ELSE IF value.k = "dict"
    THEN IF value.v = <<>> THEN <<value>>
         ELSE Leaves(Head(value.v)[2]) \o
              (IF Len(value.v) = 1 THEN <<>> ELSE Leaves(PyDict(Tail(value.v))))
    ELSE <<value>>

NonEmptyLeaves(value) == SelectSeq(Leaves(value), LAMBDA leaf : ~IsEmptyValue(leaf))

\* the value tree with every key replaced by the same name
RECURSIVE Anonymous(_)
Anonymous(value) ==
    IF value.k = "list"
    THEN PyList([i \in 1..Len(value.v) |-> Anonymous(value.v[i])])
    ELSE IF value.k = "dict"
    THEN PyDict([i \in 1..Len(value.v) |-> <<K_a, Anonymous(value.v[i][2])>>])
    ELSE value

RECURSIVE PipeJoined(_)
PipeJoined(items) ==
    IF items = <<>> THEN <<>>
    ELSE IF Len(items) = 1 THEN items[1]
    ELSE PipeJoined(SubSeq(items, 1, Len(items) - 1)) \o <<124>> \o items[Len(items)]

Range(s) == {s[i] : i \in 1..Len(s)}

\* the scenario has produced tokens and a message
Flattened == stage \in {"signed", "verified"}

\* the map the tokens and the message of the current state were made from
Source == IF stage = "signed" THEN Signed ELSE probe

-----------------------------------------------------------------------------
(* C1: a signature made by sign over an ordered map verifies over the same *)
(* map under the matching public key; in particular the signature that    *)
(* mk_payload appends verifies over the payload without its signature.     *)
C1_RoundTrip ==
    (stage = "verified" /\ how = "intact" /\ verifier = MerchantSigner.key)
        => /\ verified
           /\ probe = Signed
           /\ verify(Signed, sign(Signed, MerchantSigner), PKCS1_v1_5_new(verifier))

C1_Witness ==
    /\ stage = "verified" /\ how = "intact" /\ verifier = MerchantSigner.key
    /\ verified
    /\ \E i, j \in 1..Len(probe.v) :
          probe.v[i][2] = Example /\ probe.v[j][2] = PyStr(S_acute)

(* C2 as stated: after one field value is changed to a different value, or *)
(* two fields are swapped, verifying with the original signature is false. *)
C2_AnyChangeRejected ==
    (stage = "verified" /\ how \in {"changed", "swapped"}) => ~verified

(* C2, amended: after such a change verify returns false exactly when the  *)
(* canonical message of the changed map differs from the signed one.       *)
C2_ChangeRejectedIffMessageDiffers ==
    (stage = "verified" /\ how \in {"changed", "swapped"})
        => (verified <=> msg = mk_msg_for_sign(Signed))

C2_Witness ==
    /\ stage = "verified" /\ how = "changed" /\ ~verified
    /\ Len(probe.v) = Len(Signed.v)
    /\ \E i \in 1..Len(probe.v) : probe.v[i][2] # Signed.v[i][2]

(* C3: the flattener output is the sequence of the non-empty leaves of the *)
(* value tree in depth-first insertion order, whatever the keys are, and   *)
(* the canonical string is these tokens joined with '|'.                   *)
C3_FlattenIsLeafOrder ==
    /\ mk_msg_item(Example) = <<S_X, S_Y, S_Z>>
    /\ join(mk_msg_item(Example)) = <<88, 124, 89, 124, 90>>
    /\ Flattened =>
          /\ Len(tokens) = Len(NonEmptyLeaves(Source))
          /\ \A i \in 1..Len(tokens) :
                tokens[i] = str_or_jsbool(NonEmptyLeaves(Source)[i])
          /\ mk_msg_item(Anonymous(Source)) = tokens
          /\ msg = encode(PipeJoined(tokens))

C3_Witness ==
    /\ stage = "signed"
    /\ Len(Signed.v) = 2 /\ Signed.v[1][2] = Example /\ Signed.v[2][2] = PyInt(0)
    /\ tokens = <<S_X, S_Y, S_Z, S_zero>>


\* the UTF-8 encoding of a code point other than a surrogate: a lead byte
\* that tells the number n of continuation bytes, then n times six bits
RECURSIVE Power64(_)
Power64(n) == IF n = 0 THEN 1 ELSE 64 * Power64(n - 1)

Utf8(c) ==
    LET n == IF c < 128 THEN 0 ELSE IF c < 2048 THEN 1 ELSE IF c < 65536 THEN 2 ELSE 3
        lead == CASE n = 0 -> 0 [] n = 1 -> 192 [] n = 2 -> 224 [] OTHER -> 240
    IN  <<lead + (c \div Power64(n))>> \o
        [i \in 1..n |-> 128 + ((c \div Power64(n - i)) % 64)]

IsSurrogate(c) == c \in 55296..57343

\* "&#NNNN;"
CharRef(c) == <<38, 35>> \o Digits(c) \o <<59>>

(* C4 as stated: the hashed message holds only ASCII bytes, every          *)
(* non-ASCII code point of the canonical string being replaced by its      *)
(* numeric character reference.                                            *)
C4_MessageIsAscii ==
    Flattened => \A i \in 1..Len(msg) : msg[i] < 128

(* C4, amended: the hashed message is the UTF-8 encoding of the canonical  *)
(* string; a non-ASCII code point is hashed as its multi-byte UTF-8        *)
(* sequence, and only a code point UTF-8 cannot encode (a lone surrogate)  *)
(* is replaced by its numeric character reference.                         *)
C4_MessageIsUtf8 ==
    Flattened =>
        LET canonical == PipeJoined(tokens)
        IN  msg = concat([i \in 1..Len(canonical) |->
                             IF IsSurrogate(canonical[i]) THEN CharRef(canonical[i])
                             ELSE Utf8(canonical[i])])

C4_Witness ==
    /\ stage = "signed"
    /\ \E i \in 1..Len(tokens) : tokens[i] = S_acute
    /\ \E i \in 1..Len(tokens) : tokens[i] = S_surrogate
    /\ msg = <<38, 35, 53, 53, 50, 57, 54, 59, 124, 89, 195, 161>>

S_false == <<102, 97, 108, 115, 101>>   \* 'false'

\* token is text without the whitespace at its two ends
IsStripped(text, token) ==
    /\ token = <<>> \/ (token[1] \notin Whitespace /\ token[Len(token)] \notin Whitespace)
    /\ \E lead \in 0..Len(text) :
          /\ \A i \in 1..lead : text[i] \in Whitespace
          /\ lead + Len(token) <= Len(text)
          /\ \A i \in 1..Len(token) : text[lead + i] = token[i]
          /\ \A i \in (lead + Len(token) + 1)..Len(text) : text[i] \in Whitespace

(* C5: a boolean leaf flattens to 'true' or 'false'; any other scalar to   *)
(* its string form without leading and trailing whitespace; the integer 0  *)
(* gives '0' and is not dropped as empty.                                  *)
C5_TokenSpelling ==
    Flattened =>
        LET leaves == NonEmptyLeaves(Source)
        IN  /\ Len(tokens) = Len(leaves)
            /\ \A i \in 1..Len(leaves) :
                  /\ leaves[i].k = "bool" =>
                        tokens[i] = (IF leaves[i].v THEN S_true ELSE S_false)
                  /\ leaves[i].k = "str" => IsStripped(leaves[i].v, tokens[i])
                  /\ leaves[i] = PyInt(0) => tokens[i] = S_zero
            /\ \A leaf \in Range(Leaves(Source)) :
                  leaf.k \in {"bool", "int"} => leaf \in Range(leaves)

C5_Witness ==
    /\ stage = "verified" /\ how = "changed"
    /\ \E i, j \in 1..Len(probe.v) :
          /\ probe.v[i][2] = PyBool(FALSE) /\ probe.v[j][2] = PyInt(0)
          /\ tokens = (IF i < j THEN <<S_false, S_zero>> ELSE <<S_zero, S_false>>)

\* the pairs whose value is not empty, in their order
Kept(kvs) == SelectSeq(kvs, LAMBDA kv : ~IsEmptyValue(kv[2]))

(* C6: mk_payload returns the pairs with a non-empty value, in their       *)
(* order, followed by 'signature' as the last key, whose value is the      *)
(* signature over exactly these pairs.  The pairs are those of a request:  *)
(* their keys are distinct and none of them is 'signature'.                *)
C6_PayloadShape ==
    stage = "signed" =>
        /\ payload.k = "dict"
        /\ Len(payload.v) = Len(Kept(pairs)) + 1
        /\ \A i \in 1..Len(Kept(pairs)) : payload.v[i] = Kept(pairs)[i]
        /\ payload.v[Len(payload.v)][1] = K_signature
        /\ payload.v[Len(payload.v)][2] = PyStr(sign(PyDict(Kept(pairs)), MerchantSigner))

C6_Witness ==
    /\ stage = "signed"
    /\ Len(pairs) = 2 /\ pairs[1][2] = PyDict(<<>>) /\ pairs[2][2] = PyStr(S_padX)
    /\ od_keys(payload) = <<pairs[2][1], K_signature>>


-----------------------------------------------------------------------------
\* the keys the gateway documents, as strs; Key_x is the key x
Key_name == <<110, 97, 109, 101>>
Key_quantity == <<113, 117, 97, 110, 116, 105, 116, 121>>
Key_amount == <<97, 109, 111, 117, 110, 116>>
Key_description == <<100, 101, 115, 99, 114, 105, 112, 116, 105, 111, 110>>
Key_createdAt == <<99, 114, 101, 97, 116, 101, 100, 65, 116>>
Key_changedAt == <<99, 104, 97, 110, 103, 101, 100, 65, 116>>
Key_changedPwdAt == <<99, 104, 97, 110, 103, 101, 100, 80, 119, 100, 65, 116>>
Key_orderHistory == <<111, 114, 100, 101, 114, 72, 105, 115, 116, 111, 114, 121>>
Key_paymentsDay == <<112, 97, 121, 109, 101, 110, 116, 115, 68, 97, 121>>
Key_paymentsYear == <<112, 97, 121, 109, 101, 110, 116, 115, 89, 101, 97, 114>>
Key_oneclickAdds == <<111, 110, 101, 99, 108, 105, 99, 107, 65, 100, 100, 115>>
Key_suspicious == <<115, 117, 115, 112, 105, 99, 105, 111, 117, 115>>
Key_auth == <<97, 117, 116, 104>>
Key_authAt == <<97, 117, 116, 104, 65, 116>>
Key_authData == <<97, 117, 116, 104, 68, 97, 116, 97>>
Key_email == <<101, 109, 97, 105, 108>>
Key_homePhone == <<104, 111, 109, 101, 80, 104, 111, 110, 101>>
Key_workPhone == <<119, 111, 114, 107, 80, 104, 111, 110, 101>>
Key_mobilePhone == <<109, 111, 98, 105, 108, 101, 80, 104, 111, 110, 101>>
Key_account == <<97, 99, 99, 111, 117, 110, 116>>
Key_login == <<108, 111, 103, 105, 110>>
Key_address1 == <<97, 100, 100, 114, 101, 115, 115, 49>>
Key_city == <<99, 105, 116, 121>>
Key_zip == <<122, 105, 112>>
Key_country == <<99, 111, 117, 110, 116, 114, 121>>
Key_address2 == <<97, 100, 100, 114, 101, 115, 115, 50>>
Key_address3 == <<97, 100, 100, 114, 101, 115, 115, 51>>
Key_state == <<115, 116, 97, 116, 101>>
Key_totalAmount == <<116, 111, 116, 97, 108, 65, 109, 111, 117, 110, 116>>
Key_currency == <<99, 117, 114, 114, 101, 110, 99, 121>>
Key_type == <<116, 121, 112, 101>>
Key_availability == <<97, 118, 97, 105, 108, 97, 98, 105, 108, 105, 116, 121>>
Key_delivery == <<100, 101, 108, 105, 118, 101, 114, 121>>
Key_deliveryMode == <<100, 101, 108, 105, 118, 101, 114, 121, 77, 111, 100, 101>>
Key_deliveryEmail == <<100, 101, 108, 105, 118, 101, 114, 121, 69, 109, 97, 105, 108>>
Key_nameMatch == <<110, 97, 109, 101, 77, 97, 116, 99, 104>>
Key_addressMatch == <<97, 100, 100, 114, 101, 115, 115, 77, 97, 116, 99, 104>>
Key_billing == <<98, 105, 108, 108, 105, 110, 103>>
Key_shipping == <<115, 104, 105, 112, 112, 105, 110, 103>>
Key_shippingAddedAt == <<115, 104, 105, 112, 112, 105, 110, 103, 65, 100, 100, 101, 100, 65, 116>>
Key_reorder == <<114, 101, 111, 114, 100, 101, 114>>
Key_giftcards == <<103, 105, 102, 116, 99, 97, 114, 100, 115>>

\* the key of each field, in the order the dataclass declares the fields
DeclaredKeys(cls) ==
    CASE cls = "CartItem" ->
        <<Key_name, Key_quantity, Key_amount, Key_description>>
      [] cls = "CustomerAccount" ->
        <<Key_createdAt, Key_changedAt, Key_changedPwdAt,
          Key_orderHistory, Key_paymentsDay, Key_paymentsYear,
          Key_oneclickAdds, Key_suspicious>>
      [] cls = "CustomerLogin" ->
        <<Key_auth, Key_authAt, Key_authData>>
      [] cls = "Customer" ->
        <<Key_name, Key_email, Key_homePhone, Key_workPhone,
          Key_mobilePhone, Key_account, Key_login>>
      [] cls = "OrderAddress" ->
        <<Key_address1, Key_city, Key_zip, Key_country, Key_address2,
          Key_address3, Key_state>>
      [] cls = "OrderGiftcards" ->
        <<Key_totalAmount, Key_currency, Key_quantity>>
      [] cls = "Order" ->
        <<Key_type, Key_availability, Key_delivery, Key_deliveryMode,
          Key_deliveryEmail, Key_nameMatch, Key_addressMatch, Key_billing,
          Key_shipping, Key_shippingAddedAt, Key_reorder, Key_giftcards>>

\* the order in which a record's keys are emitted
SchemaKeys(cls) ==
    IF cls = "OrderAddress"
    THEN <<Key_address1, Key_address2, Key_address3, Key_city, Key_zip,
         Key_country, Key_state>>
    ELSE DeclaredKeys(cls)

\* the declared maximum lengths: <<position of the field, length>>
DeclaredMax(cls) ==
    CASE cls = "CartItem" -> {<<1, 20>>, <<4, 40>>}
      [] cls = "Customer" -> {<<1, 45>>}
      [] cls = "OrderAddress" -> {<<1, 50>>, <<2, 50>>, <<3, 16>>, <<5, 50>>, <<6, 50>>}
      [] cls = "Order" -> {<<5, 100>>}
      [] OTHER -> {}

\* to_dict has returned
Normalised == dstage \in {"dict", "flat"}

\* the raw value of the field declared at position i
Raw(i) == rec.v.f[i]

(* C7: a field that holds an empty value (None, '', an empty list or map)  *)
(* is no key of the map to_dict returns, and the empty values of a map     *)
(* contribute no token to the canonical string.                            *)
C7_Omission ==
    /\ Normalised =>
          \A i \in 1..Len(rec.v.f) :
              IsEmptyValue(Raw(i)) => ~od_has(out, DeclaredKeys(rec.v.cls)[i])
    /\ dstage = "flat" =>
          /\ Len(tokens) = Len(NonEmptyLeaves(out))
          /\ \A i \in 1..Len(tokens) : tokens[i] = str_or_jsbool(NonEmptyLeaves(out)[i])

C7_Witness ==
    /\ dstage = "flat"
    /\ rec.v.cls = "Customer"
    /\ Raw(2) = PyStr(<<>>) /\ Raw(3) = PyNone
    /\ od_keys(out) = <<Key_name, Key_account>>
    /\ od_get(out, Key_account) = PyDict(<<>>)
    /\ Len(tokens) = 1

(* C8: a nested record that normalises to an empty map is left out of the  *)
(* parent's map: no key of the parent holds an empty map.                  *)
C8_NoEmptyNestedMap ==
    Normalised => \A i \in 1..Len(out.v) : out.v[i][2] # PyDict(<<>>)

(* C9: a string field with a declared maximum length N normalises to its   *)
(* first N characters without their trailing whitespace (to itself without *)
(* its trailing whitespace when it is no longer than N), never to more     *)
(* than N characters.                                                      *)
C9_Truncation ==
    Normalised =>
        \A e \in DeclaredMax(rec.v.cls) :
            LET raw == Raw(e[1])
                key == DeclaredKeys(rec.v.cls)[e[1]]
                cut == IF Len(raw.v) > e[2] THEN e[2] ELSE Len(raw.v)
            IN  (raw.k = "str" /\ raw.v # <<>>) =>
                    /\ od_has(out, key)
                    /\ LET got == od_get(out, key)
                       IN  /\ got.k = "str"
                           /\ Len(got.v) <= cut
                           /\ \A i \in 1..Len(got.v) : got.v[i] = raw.v[i]
                           /\ got.v # <<>> => got.v[Len(got.v)] \notin Whitespace
                           /\ \A i \in (Len(got.v) + 1)..cut : raw.v[i] \in Whitespace

C9_Witness ==
    /\ Normalised
    /\ rec.v.cls = "CartItem"
    /\ Raw(1) = PyStr(repeat(120, 19) \o <<32, 32, 120>>)
    /\ od_get(out, Key_name) = PyStr(repeat(120, 19))

\* the position of a key in a sequence of distinct keys (0: absent)
Position(keys, key) ==
    IF \E i \in 1..Len(keys) : keys[i] = key
    THEN CHOOSE i \in 1..Len(keys) : keys[i] = key
    ELSE 0

(* C10: to_dict emits camelCase keys in the record's schema order: the     *)
(* emitted keys are a subsequence of the schema order (the declaration     *)
(* order; for OrderAddress address1, address2, address3, city, zip,        *)
(* country, state), namely the keys of the fields that are not empty.      *)
C10_SchemaOrder ==
    Normalised =>
        LET schema == SchemaKeys(rec.v.cls)
            emitted == od_keys(out)
        IN  /\ \A i \in 1..Len(emitted) : Position(schema, emitted[i]) > 0
            /\ \A i, j \in 1..Len(emitted) :
                  i < j => Position(schema, emitted[i]) < Position(schema, emitted[j])
            /\ \A i \in 1..Len(rec.v.f) :
                  ~IsEmptyValue(Raw(i)) =>
                      Position(emitted, DeclaredKeys(rec.v.cls)[i]) > 0

C10_Witness ==
    /\ Normalised
    /\ rec.v.cls = "OrderAddress"
    /\ od_keys(out) =
          <<Key_address1, Key_address2, Key_city, Key_zip, Key_country, Key_state>>

-----------------------------------------------------------------------------
(* Reference notions for the response scenario *)

\* the response as it was before the handler ran
Received == Response(response.status_code, response.json)

\* a handler has run on the response
Validated == rstage = "handled" /\ handler = "validate_response"
Returned == rstage = "handled" /\ handler = "_gateway_return"

\* the body without its signature
Data == od_without(response.json, K_signature)

\* the recognised fields of a body, ordered by their place in RESPONSE_KEYS
Canonical(d) ==
    LET ks == {key \in Range(RESPONSE_KEYS) : od_has(d, key)}
        rank(key) == Cardinality({q \in ks : Position(RESPONSE_KEYS, q)
                                               <= Position(RESPONSE_KEYS, key)})
    IN  PyDict([i \in 1..Cardinality(ks) |->
                   LET key == CHOOSE q \in ks : rank(q) = i
                   IN  <<key, od_get(d, key)>>])

\* the body carries the signature the gateway makes over the canonical order
GatewaySigned ==
    /\ od_has(response.json, K_signature)
    /\ od_get(response.json, K_signature) = PyStr(sign(Canonical(Data), GatewaySigner))

\* the handler was given the gateway's public key
RightKey == f_pubkey = PyKey(PKCS1_v1_5_new(GatewaySigner.key))

\* the bodies with the same keys and values in another order
Permuted(body) == {PyDict(kvs) : kvs \in Arrangements(body.v)}

(* C11: response verification does not depend on the order of the keys in  *)
(* the raw body: every permutation of the body gives the same outcome and  *)
(* the same payload (keys in the canonical order), and a signature the     *)
(* gateway made over the canonical order is never rejected (a body without *)
(* extensions: they carry signatures of their own).                        *)
C11_OrderIndependent ==
    Validated =>
        /\ \A b \in Permuted(response.json) :
              LET r == validate_response(Response(response.status_code, b), f_pubkey)
              IN  /\ r.exc = raised
                  /\ r.response.payload = response.payload
                  /\ r.response.extensions = response.extensions
        /\ (response.payload # Unset) =>
              od_without(response.payload, R_dttime) = Canonical(Data)
        /\ (/\ GatewaySigned /\ RightKey /\ response.status_code = 200
            /\ ~od_has(Data, R_extensions))
              => raised # "CsobVerifyError"

\* a body whose keys are not in the canonical order was accepted
C11_Witness ==
    /\ Validated
    /\ raised = ""
    /\ GatewaySigned
    /\ project_raw_order(Data, RESPONSE_KEYS) # Canonical(Data)
    /\ Len(response.payload.v) >= 3

\* verify can check the signature of the body: the handler holds a signature
\* scheme and the body carries a signature that base64 decodes
Checkable ==
    /\ f_pubkey.k = "PKCS115_SigScheme"
    /\ od_has(response.json, K_signature)
    /\ od_get(response.json, K_signature).k = "str"
    /\ Len(od_get(response.json, K_signature).v) % 4 = 0

\* verify returns false for the map m and the signature of the body
Mismatch(m) == ~verify(m, od_get(response.json, K_signature).v, f_pubkey.v)

(* C12: when the top-level signature does not verify over the re-projected *)
(* payload, validate_response raises CsobVerifyError and returns no        *)
(* response, and _gateway_return raises CsobVerifyError and returns no map. *)
C12_MismatchRaises ==
    /\ (/\ Validated /\ response.status_code = 200 /\ Checkable
        /\ Mismatch(Canonical(Data)))
          => (raised = "CsobVerifyError" /\ returned = Unset)
    /\ (/\ Returned /\ Checkable
        /\ retyped(response.json, RESPONSE_KEYS).exc = ""
        /\ Mismatch(retyped(response.json, RESPONSE_KEYS).value))
          => (raised = "CsobVerifyError" /\ returned = Unset)

\* a body signed by a stranger was handed to validate_response
C12_Witness ==
    /\ Validated /\ response.status_code = 200 /\ Checkable
    /\ Mismatch(Canonical(Data))
    /\ od_get(response.json, K_signature)
          = PyStr(sign(Canonical(Data), StrangerSigner))
    /\ raised = "CsobVerifyError"

\* the fields of d that are named in keys, in the order of keys
InOrder(d, keys) ==
    LET ks == {key \in Range(keys) : od_has(d, key)}
        rank(key) == Cardinality({q \in ks : Position(keys, q) <= Position(keys, key)})
    IN  PyDict([i \in 1..Cardinality(ks) |->
                   LET key == CHOOSE q \in ks : rank(q) = i
                   IN  <<key, od_get(d, key)>>])

\* the extensions of the body (none when the key is absent)
Extensions ==
    IF od_has(Data, R_extensions) THEN od_get(Data, R_extensions).v ELSE <<>>

IsMaskedCard(one) ==
    od_has(one, R_extension) /\ od_get(one, R_extension) = PyStr(S_maskClnRP)

\* the embedded signature of a masked-card extension verifies over its fixed
\* key subset, under the gateway's key
ExtensionVerifies(one) ==
    /\ od_has(one, K_signature)
    /\ verify(InOrder(one, maskclnrp_keys), od_get(one, K_signature).v, GatewaySigner)

\* every masked-card extension of the body carries an embedded signature
ExtensionsSigned ==
    \A i \in 1..Len(Extensions) :
        IsMaskedCard(Extensions[i]) => od_has(Extensions[i], K_signature)

\* the top-level signature of the body is the gateway's and the handler
\* holds the gateway's key
TopLevelValid == response.status_code = 200 /\ GatewaySigned /\ RightKey

(* C13: a response whose top-level signature is valid but which carries a  *)
(* maskClnRP extension whose embedded signature does not verify makes      *)
(* validate_response fail with CsobVerifyError, wherever that extension is *)
(* in the list and however many other extensions verify (every masked-card *)
(* extension carrying an embedded signature).                              *)
C13_ExtensionIsolation ==
    (/\ Validated /\ TopLevelValid /\ ExtensionsSigned
     /\ \E i \in 1..Len(Extensions) :
           IsMaskedCard(Extensions[i]) /\ ~ExtensionVerifies(Extensions[i]))
        => (raised = "CsobVerifyError" /\ returned = Unset)

\* the failing extension comes after one that verifies
C13_Witness ==
    /\ Validated /\ TopLevelValid
    /\ Len(Extensions) >= 2
    /\ IsMaskedCard(Extensions[1]) /\ ExtensionVerifies(Extensions[1])
    /\ IsMaskedCard(Extensions[2]) /\ ~ExtensionVerifies(Extensions[2])
    /\ raised = "CsobVerifyError"

(* C14: when validate_response ends in an error, the caller is given no    *)
(* validated payload and no extensions list, neither as a return value nor *)
(* as payload / extensions attributes set on the response object.          *)
C14_NoPartialResult ==
    (Validated /\ raised # "")
        => /\ returned = Unset
           /\ response.payload = Unset
           /\ response.extensions = Unset

\* the number written by the characters a..b of the str s
Number(s, a, b) == atoi(SubSeq(s, a, b))

\* the point in time a dttm value YYYYMMDDHHMMSS names
Timestamp(s) ==
    PyDatetime([y |-> Number(s, 1, 4), mo |-> Number(s, 5, 6), d |-> Number(s, 7, 8),
                h |-> Number(s, 9, 10), mi |-> Number(s, 11, 12),
                s |-> Number(s, 13, 14), aware |-> FALSE, off |-> 0])

\* the map m with the decoded dttm appended under 'dttime' (m without dttm)
WithTimestamp(m) ==
    IF od_has(m, R_dttm)
    THEN PyDict(m.v \o <<<<R_dttime, Timestamp(od_get(m, R_dttm).v)>>>>)
    ELSE m

(* C15: after a successful validation of a response that contains 'dttm',  *)
(* the payload holds the original 'dttm' unchanged at its canonical        *)
(* position and the decoded timestamp under 'dttime' as the last key; when *)
(* 'dttm' is absent no 'dttime' is added; no other key is added, removed   *)
(* or changed by this step (in _gateway_return too).                       *)
C15_TimestampAttached ==
    /\ (Validated /\ raised = "")
          => response.payload = WithTimestamp(Canonical(Data))
    /\ (Returned /\ raised = "")
          => /\ od_has(returned, R_dttime) <=> od_has(Data, R_dttm)
             /\ od_has(Data, R_dttm) =>
                   /\ od_get(returned, R_dttm) = od_get(Data, R_dttm)
                   /\ returned.v[Len(returned.v)]
                         = <<R_dttime, Timestamp(od_get(Data, R_dttm).v)>>
             /\ od_keys(od_without(returned, R_dttime)) = od_keys(Canonical(Data))

\* a validated payload with fields before and after dttm
C15_Witness ==
    /\ Validated /\ raised = ""
    /\ od_has(response.payload, R_dttm)
    /\ od_keys(response.payload)[2] = R_dttm
    /\ Len(response.payload.v) >= 5
    /\ response.payload.v[Len(response.payload.v)][1] = R_dttime

(* C16: whenever a verified response contains 'merchantData', the value    *)
(* exposed to the caller is the Base64-decoded raw bytes, for responses     *)
(* validated by validate_response and for data handled by _gateway_return. *)
C16_MerchantDataDecoded ==
    /\ (Validated /\ raised = "" /\ od_has(Data, R_merchantData))
          => od_get(response.payload, R_merchantData)
                = PyBytes(b64decode(od_get(Data, R_merchantData).v))
    /\ (Returned /\ raised = "" /\ od_has(Data, R_merchantData))
          => od_get(returned, R_merchantData)
                = PyBytes(b64decode(od_get(Data, R_merchantData).v))

\* the masked-card extensions of the body, in the order of the body
MaskedCards == SelectSeq(Extensions, IsMaskedCard)

(* C17: after a successful validate_response every element of              *)
(* response.extensions is a maskClnRP extension of the body whose embedded  *)
(* signature verified over exactly its fixed key subset (extension, dttm,   *)
(* maskedCln, expiration, longMaskedCln, in that order); the exposed        *)
(* element has only keys of that subset, and extensions of any other kind   *)
(* are never exposed.                                                       *)
C17_ExposedExtensions ==
    (Validated /\ raised = "") =>
        /\ response.extensions.v
              = [i \in 1..Len(MaskedCards) |-> InOrder(MaskedCards[i], maskclnrp_keys)]
        /\ \A i \in 1..Len(MaskedCards) : ExtensionVerifies(MaskedCards[i])
        /\ \A i \in 1..Len(response.extensions.v) :
              LET o == response.extensions.v[i]
              IN  /\ Range(od_keys(o)) \subseteq Range(maskclnrp_keys)
                  /\ od_get(o, R_extension) = PyStr(S_maskClnRP)

\* a body with an extension of another kind and a masked-card extension
\* that carries a key outside the subset was accepted
C17_Witness ==
    /\ Validated /\ raised = ""
    /\ Len(response.extensions.v) = 1
    /\ Len(Extensions) = 2
    /\ ~IsMaskedCard(Extensions[1])
    /\ od_has(Extensions[2], R_bonus)

\* a decimal string
IsDecimal(value) == value.k = "str" /\ Len(value.v) > 0 /\ IsDigits(value.v)

\* the data of a gateway return: resultCode and paymentStatus, where
\* present, are decimal strings, dttm, where present, is a date, and the
\* signature is the gateway's over the recognised keys in canonical order
ReturnData ==
    /\ GatewaySigned
    /\ \A key \in {R_resultCode, R_paymentStatus} :
          od_has(Data, key) => IsDecimal(od_get(Data, key))
    /\ od_has(Data, R_resultCode)
    /\ od_has(Data, R_dttm) => dttm_decode(od_get(Data, R_dttm)).exc = ""

(* C20: for every gateway-return data dict whose signature was computed    *)
(* over the recognised keys in canonical order, with resultCode and        *)
(* paymentStatus given as decimal strings, _gateway_return verifies and     *)
(* returns resultCode and paymentStatus as integers, passes the other       *)
(* recognised keys through and drops the unrecognised ones.                 *)
C20_GatewayReturnRetyped ==
    (Returned /\ ReturnData) =>
        /\ raised = ""
        /\ \A key \in {R_resultCode, R_paymentStatus} :
              od_has(Data, key) =>
                 od_get(returned, key) = PyInt(atoi(od_get(Data, key).v))
        /\ od_keys(od_without(returned, R_dttime)) = od_keys(Canonical(Data))
        /\ \A key \in {R_payId, R_dttm, R_resultMessage, R_authCode} :
              od_has(Data, key) => od_get(returned, key) = od_get(Data, key)

-----------------------------------------------------------------------------
(* Reference notions for the request scenario *)

\* a call was made
Made(name) == cstage = "called" /\ call[1] = name

\* the number of characters of the Base64 encoding of n bytes
EncodedLength(n) == 4 * ((n + 2) \div 3)

\* the merchant data of the call is too long once encoded
TooLong == call[2].k = "bytes" /\ EncodedLength(Len(call[2].v)) > 255

(* C18: when the Base64 encoding of merchant_data is longer than 255        *)
(* characters, payment_init and button_init fail with ValueError before     *)
(* anything is signed or sent: no HTTP request is issued in that call.      *)
C18_TooLongRejectedUnsent ==
    ((Made("payment_init") \/ Made("button_init")) /\ TooLong)
        => /\ craised = "ValueError"
           /\ http = <<>>
           /\ creturned = Unset

\* payment_init with 190 bytes on a client that is able to sign
C18_Witness ==
    /\ Made("payment_init") /\ TooLong
    /\ client.f_key = PyKey(MerchantSigner)
    /\ craised = "ValueError"

-----------------------------------------------------------------------------
\* the digits of %XX
HexDigits == <<48, 49, 50, 51, 52, 53, 54, 55, 56, 57, 65, 66, 67, 68, 69, 70>>

\* a character as it stands in a URL: unreserved characters as they are, a
\* blank as '+', any other as the %XX of each of its UTF-8 bytes
Escaped(c) ==
    IF c \in (48..57) \cup (65..90) \cup (97..122) \cup {45, 46, 95, 126} THEN <<c>>
    ELSE IF c = 32 THEN <<43>>
    ELSE LET bs == Utf8(c)
         IN  concat([i \in 1..Len(bs) |->
                        <<37, HexDigits[(bs[i] \div 16) + 1], HexDigits[(bs[i] % 16) + 1]>>])

\* the values of the payload of echo, the signature last
EchoValues ==
    LET p == mk_payload(client.f_key.v,
                        <<<<Q_merchantId, client.merchant_id>>, <<R_dttm, PyStr(S_dttm)>>>>)
    IN  [i \in 1..Len(p.v) |-> p.v[i][2].v]

\* the values, each one escaped, with '/' between them
ValuesPath ==
    concat([i \in 1..Len(EchoValues) |->
               (IF i = 1 THEN <<>> ELSE <<47>>)
               \o concat([j \in 1..Len(EchoValues[i]) |-> Escaped(EchoValues[i][j])])])

\* base URL and endpoint
EchoUrl == client.base_url \o <<47>> \o E_echo

EchoSent == Made("echo") /\ Len(http) = 1

\* C19: a GET call is sent to the URL made of the base URL, the endpoint and
\* then the values of the payload (no keys), in the order of the payload with
\* the signature last, each value percent-encoded, joined by '/'; a call
\* without a payload in the URL is sent to base URL plus endpoint.
C19_ValuesInPath ==
    EchoSent =>
        http[1].url = IF call[2] = PyStr(S_GET) THEN EchoUrl \o ValuesPath ELSE EchoUrl

-----------------------------------------------------------------------------
N_name == <<110, 97, 109, 101>>                                       \* 'name'
N_quantity == <<113, 117, 97, 110, 116, 105, 116, 121>>               \* 'quantity'
N_amount == <<97, 109, 111, 117, 110, 116>>                           \* 'amount'
N_description == <<100, 101, 115, 99, 114, 105, 112, 116, 105, 111, 110>>  \* 'description'

\* the first n characters of s, without the blanks at their end
Cut(s, n) ==
    LET head == SubSeq(s, 1, IF Len(s) < n THEN Len(s) ELSE n)
        last == {i \in 1..Len(head) : head[i] # 32}
    IN  SubSeq(head, 1, IF last = {} THEN 0 ELSE CHOOSE i \in last : \A j \in last : j <= i)

PaymentSent == Made("payment_init") /\ Len(http) = 1

\* the cart in the body of the request
SentCart ==
    IF od_has(PyDict(http[1].data.v), Q_cart)
    THEN od_get(PyDict(http[1].data.v), Q_cart) ELSE Unset

GivenCart == call[3]
GivenDescription == call[4].v

\* a cart item as the gateway expects it: name in 20 characters, quantity,
\* amount, and the description in 40 characters when there is one
ItemOf(name, quantity, amount, description) ==
    PyDict(<<<<N_name, PyStr(Cut(name, 20))>>, <<N_quantity, quantity>>, <<N_amount, amount>>>>
           \o (IF description = PyNone THEN <<>>
               ELSE <<<<N_description, PyStr(Cut(description.v, 40))>>>>))

\* the same, the name left out when it is the empty string
ItemOfNamed(name, quantity, amount, description) ==
    IF name = <<>>
    THEN PyDict(<<<<N_quantity, quantity>>, <<N_amount, amount>>>>)
    ELSE ItemOf(name, quantity, amount, description)

NormalizedGiven ==
    PyList([i \in 1..Len(GivenCart.v) |->
               LET f == GivenCart.v[i].v.f IN ItemOf(f[1].v, f[2], f[3], f[4])])

NoCartGiven == GivenCart = PyNone \/ GivenCart.v = <<>>

\* C21 as stated: without a cart (None or an empty list) the request's cart is
\* one item with name = the description cut to 20 characters and right-trimmed,
\* quantity 1 and amount = total_amount; a given cart is sent as its
\* normalized items in the given order.
C21_CartAsStated ==
    PaymentSent =>
        SentCart = IF NoCartGiven
                   THEN PyList(<<ItemOf(GivenDescription, PyInt(1), PyInt(66600), PyNone)>>)
                   ELSE NormalizedGiven

\* C21 amended: as stated, except that the one item carries no name at all
\* when the description is the empty string (an empty value is left out of
\* the normalized item).
C21_CartFilled ==
    PaymentSent =>
        SentCart = IF NoCartGiven
                   THEN PyList(<<ItemOfNamed(GivenDescription, PyInt(1), PyInt(66600), PyNone)>>)
                   ELSE NormalizedGiven

\* an empty cart was given, the description is cut and trimmed, and the
\* request went out with the one item
C21_Witness ==
    /\ PaymentSent
    /\ GivenCart = PyList(<<>>)
    /\ Len(GivenDescription) > 20
    /\ Cut(GivenDescription, 20) # SubSeq(GivenDescription, 1, 20)
    /\ SentCart = PyList(<<ItemOf(GivenDescription, PyInt(1), PyInt(66600), PyNone)>>)

-----------------------------------------------------------------------------
\* what the call j gives when nothing else runs: the exception, the value
\* returned, and the response object as the call leaves it
Alone(j) ==
    IF j.op = "mk_payload"
    THEN IF j.key.k # "PKCS115_SigScheme"
         THEN [exc |-> "AttributeError", result |-> Unset, response |-> Unset]
         ELSE [exc |-> "", result |-> mk_payload(j.key.v, j.pairs), response |-> Unset]
    ELSE LET r == validate_response(j.response, j.key)
         IN  [exc |-> r.exc,
              result |-> IF r.exc = "" THEN r.response ELSE Unset,
              response |-> r.response]

\* where the call of thread t stands
Outcome(t) == frame[frame_of(t)]

Finished(t) == Outcome(t).pc \in {"done", "raised"}

\* C22: whatever the interleaving of the statements of the calls, a call that
\* has ended has raised or returned exactly what it raises or returns when
\* it runs alone (payload with signature, or accepted response, or the
\* rejection), and has left its response object as it leaves it alone.
C22_Independent ==
    \A t \in Threads :
        Finished(t) =>
            /\ Outcome(t).exc = Alone(job[t]).exc
            /\ Outcome(t).result = Alone(job[t]).result
            /\ Outcome(t).response = Alone(job[t]).response

\* one thread has signed a request and the other has validated a response
\* and accepted it with its extension
C22_Witness ==
    /\ job[1].op = "mk_payload" /\ job[2].op = "validate_response"
    /\ Outcome(1).pc = "done" /\ Outcome(2).pc = "done"
    /\ Outcome(1).result = mk_payload(job[1].key.v, job[1].pairs)
    /\ Len(Outcome(2).result.extensions.v) = 1
    /\ Outcome(1).log # <<>>

-----------------------------------------------------------------------------
Base64Alphabet == (65..90) \cup (97..122) \cup (48..57) \cup {43, 47}

\* valid Base64: groups of four characters of the alphabet, the last group
\* ending in at most two '='
WellFormed(s) ==
    /\ Len(s) % 4 = 0
    /\ \A i \in 1..Len(s) :
          \/ s[i] \in Base64Alphabet
          \/ s[i] = 61 /\ i >= Len(s) - 1 /\ s[Len(s)] = 61

\* the body carries a signature that is a string
TextSignature ==
    /\ od_has(response.json, K_signature)
    /\ od_get(response.json, K_signature).k = "str"

TopSignature == od_get(response.json, K_signature).v

\* C23: verify does not throw for a well-formed signature that does not
\* match, it returns false (validate_response then raises CsobVerifyError); a
\* signature that is not valid Base64, and key material that is no key, end
\* in an error that is neither acceptance nor the error of a mismatch.
C23_MalformedIsDistinct ==
    (Validated /\ response.status_code = 200 /\ TextSignature) =>
        /\ (/\ RightKey /\ WellFormed(TopSignature)
            /\ TopSignature # sign(Canonical(Data), GatewaySigner))
              => raised = "CsobVerifyError"
        /\ (f_pubkey.k = "PKCS115_SigScheme" /\ ~WellFormed(TopSignature))
              => raised \notin {"", "CsobVerifyError"}
        /\ f_pubkey.k # "PKCS115_SigScheme"
              => raised \notin {"", "CsobVerifyError"}

-----------------------------------------------------------------------------
\* the steps of a validation that accepts a response with n extensions
ValidationOrder(n) ==
    <<"raise_for_status", "json", "pop", "project", "verify", "dttm_decode", "attributes">>
    \o [i \in 1..n |-> "extension"] \o <<"return response">>

StartsWith(whole, start) ==
    Len(start) <= Len(whole) /\ start = SubSeq(whole, 1, Len(start))

Validating(t) == job[t].op = "validate_response" /\ frame[t].pc # "idle"

ExtensionCount(j) ==
    IF od_has(j.response.json, R_extensions)
    THEN Len(od_get(j.response.json, R_extensions).v) ELSE 0

\* the top-level signature of the response of call j verifies under its key
TopVerified(j) ==
    /\ j.key.k = "PKCS115_SigScheme"
    /\ od_has(j.response.json, K_signature)
    /\ verify(Canonical(od_without(j.response.json, K_signature)),
              od_get(j.response.json, K_signature).v, j.key.v)

Steps(t) == Range(frame[t].log)

ValidationInOrder(t) ==
    /\ StartsWith(ValidationOrder(ExtensionCount(job[t])), frame[t].log)
    /\ job[t].response.status_code >= 400 => "json" \notin Steps(t)
    /\ (Steps(t) \cap {"dttm_decode", "attributes", "extension"} # {}) => TopVerified(job[t])
    /\ frame[t].pc = "done" <=> frame[t].result # Unset
    /\ frame[t].pc = "done" =>
          frame[t].log = ValidationOrder(ExtensionCount(job[t]))
    /\ frame[t].pc = "raised" => frame[t].exc # ""

\* a call that has raised or returned takes no further step
Terminal(t) ==
    frame[t].pc \in {"raised", "done"} => frame'[t] = frame[t]

\* C24: validate_response checks the HTTP status, parses the body, projects
\* the keys, checks the top-level signature, then decodes the timestamp and
\* verifies the extensions, then returns: the body is not parsed for an HTTP
\* error status, nothing is decoded and no extension is looked at unless the
\* top-level signature verified, the response is returned only after all the
\* steps, and after a failure no further step is taken.
C24_ValidationOrder ==
    /\ [](\A t \in Threads : Validating(t) => ValidationInOrder(t))
    /\ [][\A t \in Threads : Terminal(t)]_vars

\* one response was accepted after its two extensions, another one was
\* rejected at the signature check and went no further
C24_Witness ==
    /\ Validating(1) /\ frame[1].pc = "done"
    /\ ExtensionCount(job[1]) = 2
    /\ Validating(2) /\ frame[2].pc = "raised"
    /\ frame[2].exc = "CsobVerifyError"
    /\ frame[2].log = <<"raise_for_status", "json", "pop", "project", "verify">>

-----------------------------------------------------------------------------
\* C25: mk_msg_item emits no empty token, whatever the value tree (strings
\* of blanks included), so that the message has no '|' at its start or end
\* and no two '|' next to each other.
C25_NoEmptyToken ==
    Flattened =>
        /\ \A i \in 1..Len(tokens) : tokens[i] # <<>>
        /\ msg # <<>> => msg[1] # 124 /\ msg[Len(msg)] # 124
        /\ \A i \in 1..(Len(msg) - 1) : ~(msg[i] = 124 /\ msg[i + 1] = 124)

-----------------------------------------------------------------------------
\* C26: what is signed is what is sent: for every string leaf of the payload
\* that mk_payload built, the token that enters the signed message is the
\* very string that the payload (the body of the request) carries.
C26_SignedIsSent ==
    stage = "signed" =>
        LET leaves == NonEmptyLeaves(Signed)
        IN  /\ Len(tokens) = Len(leaves)
            /\ \A i \in 1..Len(leaves) :
                  leaves[i].k = "str" => tokens[i] = leaves[i].v

-----------------------------------------------------------------------------
\* C27: the message is unambiguous: a map whose token list differs from the
\* token list of the signed map never has the same message, so the signature
\* is never valid for it (a value with '|' in it cannot stand for two values).
C27_Unambiguous ==
    (stage = "verified" /\ verifier = MerchantSigner.key
     /\ tokens # mk_msg_item(Signed))
        => /\ msg # mk_msg_for_sign(Signed)
           /\ ~verified

-----------------------------------------------------------------------------
\* the body lacks the top-level signature, or one of its masked-card
\* extensions lacks its embedded signature
Unsigned ==
    \/ ~od_has(response.json, K_signature)
    \/ \E i \in 1..Len(Extensions) :
          /\ IsMaskedCard(Extensions[i])
          /\ ~od_has(Extensions[i], K_signature)

\* C28: no response is accepted with a signature left unchecked: a body
\* without the 'signature' key, or with a maskClnRP extension without the
\* 'signature' key, ends validate_response in an error, never in a returned
\* response.
C28_UnsignedNeverAccepted ==
    (Validated /\ Unsigned) => (raised # "" /\ returned = Unset)

\* the top-level signature is the gateway's, an extension that verifies is
\* followed by one without a signature, and the call ends in KeyError
C28_Witness ==
    /\ Validated /\ TopLevelValid
    /\ Len(Extensions) = 2
    /\ ExtensionVerifies(Extensions[1])
    /\ IsMaskedCard(Extensions[2])
    /\ ~od_has(Extensions[2], K_signature)
    /\ raised = "KeyError"
    /\ returned = Unset

-----------------------------------------------------------------------------
\* get_card_provider has returned
Identified == provider \notin {"idle", "pending"}

\* the first six characters of the number are ASCII digits
SixDigits ==
    /\ Len(long_masked_number) >= 6
    /\ \A i \in 1..6 : long_masked_number[i] \in 48..57

\* the number that n leading digits of s spell
RECURSIVE Spelled(_, _)
Spelled(s, n) == IF n = 0 THEN 0 ELSE 10 * Spelled(s, n - 1) + (s[n] - 48)

Bin == Spelled(long_masked_number, 6)

MasterCardBin == Bin \in (510000..559999) \cup (222100..272099)

\* the pattern listed for a provider id
PatternOf(id) == (CHOOSE i \in 1..Len(PROVIDERS) : PROVIDERS[i][1] = id)

\* C29: get_card_provider reports MasterCard for every masked number whose
\* first six characters are digits spelling a BIN in 510000-559999 or in
\* 222100-272099, and never reports a provider whose pattern does not match
\* those six characters.
C29_MasterCardRanges ==
    Identified =>
        /\ (SixDigits /\ MasterCardBin) => provider = "CARD_PROVIDER_MC"
        /\ provider # "None" =>
              match(PROVIDERS[PatternOf(provider)][2], first_six(long_masked_number))

-----------------------------------------------------------------------------
\* C30: every string value in a map returned by to_dict is non-empty: a
\* string field that truncation and right-trim leave empty (a CartItem name
\* of blanks only) is not emitted as a key with the value ''.
C30_NoEmptyString ==
    (Normalised /\ out.k = "dict") =>
        \A i \in 1..Len(Leaves(out)) :
            Leaves(out)[i].k = "str" => Leaves(out)[i].v # <<>>

====
